---- MODULE Spec2Model ----
(***************************************************************************)
(* A model of HealthHelper: the data functions of healthhelper/data.py     *)
(* (get_entries, get_file_entry_names, sum_shared_values,                  *)
(* calculate_entry_info) and the food dictionary (catalog) handlers of     *)
(* healthhelper/interface.py.                                              *)
(*                                                                         *)
(* Text that the program parses or compares (entry names, amounts, the     *)
(* numeric fields of a row) is a sequence of one-character strings, so     *)
(* that float(), str(), "in" and sorting are computed and not assumed.     *)
(* Program literals (messages, unit labels) are TLA+ strings.              *)
(*                                                                         *)
(* Numbers: a Python float is modelled by the exact rational it stands     *)
(* for, [n, d] with d > 0.  Binary rounding error is therefore not in the  *)
(* model: round(x, 2) rounds the exact value, ties to even.                *)
(***************************************************************************)
EXTENDS Integers, Sequences, FiniteSets, TLC

VARIABLES
    pc,        \* harness of the data functions: "call" before, "done" after
    fn,        \* the data function under test
    args,      \* its arguments, as passed
    ret,       \* what it returned or raised
    after,     \* the caller's row lists after the call
    fd,        \* the food dictionary file: absent, or its rows
    win,       \* the window on screen
    table,     \* the table of the window: fd_table, log_table or edit_table
    dlg,       \* FoodDictWin's confirmation dialogs: the kinds of those open,
               \* oldest first, and whether self.dlg (the newest) is open
    editName,  \* EditFoodDictWin.edit_entry_name (<<>>: None)
    msg,       \* key of the MessageWin shown by the last handler ("" if none)
    last,      \* what the last handler did: its inputs and the file before it
    logs,      \* the log files: the rows of the file of each date that has one
    date,      \* LogsWin.date / EditLogWin.date: the date of the log on screen
    totals     \* LogsWin.totals_table: the rows 'All entries', 'Selected entries'

vars == <<pc, fn, args, ret, after, fd, win, table, dlg, editName, msg, last,
          logs, date, totals>>

-----------------------------------------------------------------------------
(* Bounds of the model.                                                    *)

MaxEntries == 2      \* rows passed to one call of a data function
MaxWidth == 2        \* values in a row that is summed
MaxRows == 3         \* rows of a file
MaxNames == 2        \* names passed to get_entries

-----------------------------------------------------------------------------
(* Text.                                                                   *)

Digits == <<"0", "1", "2", "3", "4", "5", "6", "7", "8", "9">>

IsDigit(c) == \E i \in 1..10 : Digits[i] = c

DigitVal(c) == (CHOOSE i \in 1..10 : Digits[i] = c) - 1

AllDigits(t) == \A i \in 1..Len(t) : IsDigit(t[i])

RECURSIVE DigitsToNat(_)
DigitsToNat(t) ==
    IF t = <<>> THEN 0
    ELSE DigitsToNat(SubSeq(t, 1, Len(t) - 1)) * 10 + DigitVal(t[Len(t)])

RECURSIVE Pow10(_)
Pow10(k) == IF k = 0 THEN 1 ELSE 10 * Pow10(k - 1)

RECURSIVE NatToDigits(_)
NatToDigits(n) ==
    IF n < 10 THEN <<Digits[n + 1]>>
    ELSE NatToDigits(n \div 10) \o <<Digits[(n % 10) + 1]>>

-----------------------------------------------------------------------------
(* Numbers.                                                                *)

Rat(n, d) == [n |-> n, d |-> d]

RatMul(a, b) == Rat(a.n * b.n, a.d * b.d)

RatAdd(a, b) == Rat(a.n * b.d + b.n * a.d, a.d * b.d)

\* a / b for b # 0, the denominator kept positive.
RatDiv(a, b) ==
    IF b.n > 0 THEN Rat(a.n * b.d, a.d * b.n)
    ELSE Rat(-(a.n * b.d), -(a.d * b.n))

RatIsInt(a) == a.n % a.d = 0

RatEq(a, b) == a.n * b.d = b.n * a.d

\* The integer nearest to n / d (d > 0), a tie going to the even one.
RoundHalfEven(n, d) ==
    LET q == n \div d
        r == n % d
    IN  IF 2 * r < d THEN q
        ELSE IF 2 * r > d THEN q + 1
        ELSE IF q % 2 = 0 THEN q ELSE q + 1

\* round(x, 2), as a number of hundredths.
Round2(x) == RoundHalfEven(100 * x.n, x.d)

\* float(text): Python's decimal literals [sign] digits [. digits] and
\* [sign] . digits; anything else raises ValueError (ok = FALSE).
float_(t) ==
    LET signed == t # <<>> /\ t[1] \in {"+", "-"}
        body == IF signed THEN Tail(t) ELSE t
        dots == {i \in 1..Len(body) : body[i] = "."}
        dot == IF dots = {} THEN Len(body) + 1 ELSE CHOOSE i \in dots : TRUE
        ip == SubSeq(body, 1, dot - 1)
        fp == SubSeq(body, dot + 1, Len(body))
        ok == /\ Cardinality(dots) <= 1
              /\ AllDigits(ip) /\ AllDigits(fp)
              /\ Len(ip) + Len(fp) > 0
        mag == DigitsToNat(ip) * Pow10(Len(fp)) + DigitsToNat(fp)
    IN  IF ~ok THEN [ok |-> FALSE, n |-> 0, d |-> 1]
        ELSE [ok |-> TRUE,
              n |-> IF signed /\ t[1] = "-" THEN -mag ELSE mag,
              d |-> Pow10(Len(fp))]

-----------------------------------------------------------------------------
(* Python values held in a row.  ty is the Python type; s the text of a    *)
(* str; h the value of an int or of a float rounded to 2 places, in        *)
(* hundredths; x the items of a list or of the text of a dict or list      *)
(* literal (a csv field that ast.literal_eval reads back).                 *)

Str(t) == [ty |-> "str", s |-> t, h |-> 0, x |-> <<>>]

PyInt(i) == [ty |-> "int", s |-> <<>>, h |-> 100 * i, x |-> <<>>]

PyFloat(h) == [ty |-> "float", s |-> <<>>, h |-> h, x |-> <<>>]

\* The text of a dict literal {unit: 'amount', ...}: <<unit, amount>> pairs.
DictText(opts) == [ty |-> "str", s |-> <<"{">>, h |-> 0, x |-> opts]

\* The text of a list literal ['a', 'b'].
ListText(items) == [ty |-> "str", s |-> <<"[">>, h |-> 0, x |-> items]

\* A Python list [amount, unit].
PyPair(amount, unit) == [ty |-> "list", s |-> <<>>, h |-> 0, x |-> <<amount, unit>>]

Blank == Str(<<>>)

\* "not val"
Falsy(v) ==
    CASE v.ty = "str" -> v.s = <<>>
      [] v.ty = "list" -> v.x = <<>>
      [] OTHER -> v.h = 0

\* float(val) of a row value: [ok, n, d]
ToFloat(v) ==
    IF v.ty = "str" THEN float_(v.s)
    ELSE [ok |-> v.ty \in {"int", "float"}, n |-> v.h, d |-> 100]

\* A number as calculate_entry_info leaves it: int when it has no
\* fractional part, or else the float.
Collapse(h) == IF h % 100 = 0 THEN PyInt(h \div 100) ELSE PyFloat(h)

\* str() of an int, and of a float that has at most 2 decimal places.
StrOfInt(i) == IF i < 0 THEN <<"-">> \o NatToDigits(-i) ELSE NatToDigits(i)

StrOfFloat(h) ==
    LET m == IF h < 0 THEN -h ELSE h
        f == m % 100
        frac == IF f % 10 = 0 THEN <<Digits[(f \div 10) + 1]>>
                ELSE <<Digits[(f \div 10) + 1], Digits[(f % 10) + 1]>>
    IN  (IF h < 0 THEN <<"-">> ELSE <<>>) \o NatToDigits(m \div 100) \o <<".">> \o frac

-----------------------------------------------------------------------------
(* data.calculate_entry_info                                               *)

\* serv_size_options[input_unit]: the amount text, or <<"KeyError">>.
DictGet(opts, unit) ==
    IF \E i \in 1..Len(opts) : opts[i][1] = unit
    THEN opts[CHOOSE i \in 1..Len(opts) : opts[i][1] = unit][2]
    ELSE <<"KeyError">>

HasKey(opts, unit) == \E i \in 1..Len(opts) : opts[i][1] = unit

\* del row[17]
DelCostPair(row) == SubSeq(row, 1, 17) \o SubSeq(row, 19, Len(row))

\* AmountError without the test for a blank amount (lines 196-200).
AmountErrorNoBlankTest(given, tally, edit) ==
    IF tally THEN ""
    ELSE IF ~float_(given).ok THEN "invalid amount"
    ELSE ""

\* Lines 187-205: the message the function returns for this amount ("" when
\* it goes on).  In tally mode nothing is returned.
AmountError(given, tally, edit) ==
    IF tally THEN ""
    ELSE IF given = <<>>
      THEN (IF edit THEN "no amount given (log edit)" ELSE "no amount given (log add)")
    ELSE IF ~float_(given).ok THEN "invalid amount"
    ELSE ""

\* input_amount after lines 187-192: in tally mode a text that is no float
\* is replaced by the int 0.
InputAmount(given, tally) ==
    IF tally /\ ~float_(given).ok THEN PyInt(0) ELSE Str(given)

\* Lines 207-213: num_of_servings, for a serving size that is not zero.
NumServings(amount, input_unit, opts) ==
    IF input_unit = "Serving(s)" THEN Rat(ToFloat(amount).n, ToFloat(amount).d)
    ELSE LET size == float_(DictGet(opts, input_unit))
         IN  RatDiv(Rat(ToFloat(amount).n, ToFloat(amount).d), Rat(size.n, size.d))

\* ScaleVal multiplying by the number of servings as rounded for display.
ScaleValByRoundedServings(val, num) ==
    IF Falsy(val) THEN val
    ELSE Collapse(Round2(RatMul(ToFloat(val), Rat(Round2(num), 100))))

\* ScaleVal cutting the product off after two decimals.
ScaleValTruncated(val, num) ==
    IF Falsy(val) THEN val
    ELSE Collapse((100 * RatMul(ToFloat(val), num).n) \div RatMul(ToFloat(val), num).d)

\* ScaleVal counting a blank value as 0.
ScaleValBlankAsZero(val, num) ==
    IF Falsy(val) THEN PyInt(0)
    ELSE Collapse(Round2(RatMul(ToFloat(val), num)))

\* Lines 223-232: one value of row[2:] times the number of servings.
ScaleVal(val, num) ==
    IF Falsy(val) THEN val
    ELSE Collapse(Round2(RatMul(ToFloat(val), num)))

\* Lines 234-236: the num_of_servings field of the edited entry.
ServingsField(num) ==
    IF RatIsInt(num) THEN PyInt(num.n \div num.d) ELSE PyFloat(Round2(num))

\* The body of the loop for one entry.  kind is "row" (the edited entry was
\* appended), "str" (the function returned msg) or "raise" (exception msg);
\* entry is the caller's row as the body leaves it.
CalcEntry(entry, pair, tally, edit) ==
    LET given == pair[1]
        input_unit == pair[2]
        input_amount == InputAmount(given, tally)
        stop(k, m) == [kind |-> k, msg |-> m, row |-> <<>>, entry |-> entry]
        opts == entry[2].x
        byUnit == input_unit # "Serving(s)"
        num == NumServings(input_amount, input_unit, opts)
        cut == DelCostPair(entry)
        vals == SubSeq(cut, 3, Len(cut))
        scaled == [i \in 1..Len(vals) |-> ScaleVal(vals[i], num)]
    IN  IF AmountError(given, tally, edit) # ""
          THEN stop("str", AmountError(given, tally, edit))
        ELSE IF byUnit /\ ~HasKey(opts, input_unit)
          THEN stop("raise", "KeyError")
        ELSE IF byUnit /\ ~float_(DictGet(opts, input_unit)).ok
          THEN stop("raise", "ValueError")
        ELSE IF byUnit /\ float_(DictGet(opts, input_unit)).n = 0
          THEN stop("raise", "ZeroDivisionError")
        ELSE IF Len(entry) < 18
          THEN stop("raise", "IndexError")
        ELSE IF \E i \in 1..Len(vals) : ~Falsy(vals[i]) /\ ~ToFloat(vals[i]).ok
          THEN [kind |-> "raise", msg |-> "ValueError", row |-> <<>>, entry |-> cut]
        ELSE [kind |-> "row", msg |-> "",
              row |-> <<entry[1], PyPair(input_amount, input_unit), ServingsField(num)>>
                      \o scaled,
              entry |-> cut]

RECURSIVE CalcLoop(_, _, _, _, _, _)
CalcLoop(entries, amounts, tally, edit, k, acc) ==
    IF k > Len(entries)
    THEN [kind |-> "list", msg |-> "", rows |-> acc, entries |-> entries]
    ELSE IF k > Len(amounts)
    THEN [kind |-> "raise", msg |-> "IndexError", rows |-> <<>>, entries |-> entries]
    ELSE LET one == CalcEntry(entries[k], amounts[k], tally, edit)
             now == [entries EXCEPT ![k] = one.entry]
         IN  IF one.kind = "row"
             THEN CalcLoop(now, amounts, tally, edit, k + 1, Append(acc, one.row))
             ELSE [kind |-> one.kind, msg |-> one.msg, rows |-> <<>>, entries |-> now]

\* The result ([kind, msg, rows]) and the caller's entries_to_modify after it.
calculate_entry_info(entries_to_modify, user_input_amounts, tally, edit) ==
    CalcLoop(entries_to_modify, user_input_amounts, tally, edit, 1, <<>>)

-----------------------------------------------------------------------------
(* data.sum_shared_values                                                  *)

MinLen(lists) ==
    IF lists = <<>> THEN 0
    ELSE CHOOSE n \in {Len(lists[i]) : i \in 1..Len(lists)} :
             \A i \in 1..Len(lists) : n <= Len(lists[i])

\* Lines 153-157: the sum of one column, a blank counting as 0.
RECURSIVE ColumnSum(_, _, _)
ColumnSum(values_list, col, n) ==
    IF n = 0 THEN Rat(0, 1)
    ELSE LET val == values_list[n][col]
             f == ToFloat(val)
         IN  RatAdd(ColumnSum(values_list, col, n - 1),
                    IF Falsy(val) THEN Rat(0, 1) ELSE Rat(f.n, f.d))

\* Lines 158-160: the sum as text: an int when the sum is whole, or else
\* the sum rounded to 2 places.
TotalText(sum_) ==
    IF RatIsInt(sum_) THEN Str(StrOfInt(sum_.n \div sum_.d))
    ELSE Str(StrOfFloat(Round2(sum_)))

\* sum_shared_values taking the number of columns from the first row.
SumSharedValuesByFirstRow(values_list) ==
    IF values_list = <<>> THEN [kind |-> "raise", msg |-> "IndexError", rows |-> <<>>]
    ELSE IF \E r \in 1..Len(values_list) : \E c \in 1..MinLen(values_list) :
           ~Falsy(values_list[r][c]) /\ ~ToFloat(values_list[r][c]).ok
    THEN [kind |-> "raise", msg |-> "ValueError", rows |-> <<>>]
    ELSE [kind |-> "list", msg |-> "",
          rows |-> [c \in 1..MinLen(values_list) |->
                       TotalText(ColumnSum(values_list, c, Len(values_list)))]]

\* zip(*values_list) stops at the shortest row, and yields nothing for no row.
sum_shared_values(values_list) ==
    IF \E r \in 1..Len(values_list) : \E c \in 1..MinLen(values_list) :
           ~Falsy(values_list[r][c]) /\ ~ToFloat(values_list[r][c]).ok
    THEN [kind |-> "raise", msg |-> "ValueError", rows |-> <<>>]
    ELSE [kind |-> "list", msg |-> "",
          rows |-> [c \in 1..MinLen(values_list) |->
                       TotalText(ColumnSum(values_list, c, Len(values_list)))]]

-----------------------------------------------------------------------------
(* data.get_entries and data.get_file_entry_names                          *)

\* entry_names as the callers pass it: None, a list of names, or one name
\* (a str, which Python iterates by character and searches by substring).
NoNames == [ty |-> "none", items |-> <<>>, s |-> <<>>]
NameList(l) == [ty |-> "list", items |-> l, s |-> <<>>]
NameStr(t) == [ty |-> "str", items |-> <<>>, s |-> t]

\* "not entry_names"
NoEntryNames(en) == en.ty = "none" \/ (en.items = <<>> /\ en.s = <<>>)

\* What "for name in entry_names" yields.
Iterate(en) == IF en.ty = "str" THEN [i \in 1..Len(en.s) |-> <<en.s[i]>>] ELSE en.items

\* t in text
IsSubstring(t, text) ==
    \E i \in 0..(Len(text) - Len(t)) : SubSeq(text, i + 1, i + Len(t)) = t

\* "name in entry_names"
In(name, en) ==
    IF en.ty = "str" THEN IsSubstring(name, en.s)
    ELSE \E i \in 1..Len(en.items) : en.items[i] = name

\* Lines 97-100: for each name in turn, the rows that bear it.
RECURSIVE MatchRows(_, _)
MatchRows(names, reader) ==
    IF names = <<>> THEN <<>>
    ELSE SelectSeq(reader, LAMBDA row : row[1].s = names[1])
         \o MatchRows(Tail(names), reader)

get_entries(file, entry_names, match, return_all) ==
    IF ~file.exists THEN [kind |-> "str", msg |-> "file not found", rows |-> <<>>]
    ELSE IF return_all THEN [kind |-> "list", msg |-> "", rows |-> file.rows]
    ELSE IF NoEntryNames(entry_names) THEN [kind |-> "list", msg |-> "", rows |-> <<>>]
    ELSE IF match
      THEN [kind |-> "list", msg |-> "", rows |-> MatchRows(Iterate(entry_names), file.rows)]
    ELSE [kind |-> "list", msg |-> "",
          rows |-> SelectSeq(file.rows, LAMBDA row : ~In(row[1].s, entry_names))]

\* The names, as a list of str values; open() raises when there is no file.
get_file_entry_names(file) ==
    IF ~file.exists THEN [kind |-> "raise", msg |-> "FileNotFoundError", rows |-> <<>>]
    ELSE [kind |-> "list", msg |-> "", rows |-> [i \in 1..Len(file.rows) |-> file.rows[i][1]]]

-----------------------------------------------------------------------------
(* Rows and inputs the data functions are called with.                     *)

T2 == <<"2">>
T0 == <<"0">>
T15 == <<"1", ".", "5">>
T100 == <<"1", "0", "0">>

\* A food dictionary row: name, serving sizes, 15 nutrients, [total cost,
\* servings per container], cost per serving (19 fields).
CatalogRow(name, opts, nutrients, cost) ==
    <<Str(name), DictText(opts)>>
    \o [i \in 1..15 |-> Str(nutrients[i])]
    \o (IF cost = <<>> THEN <<Blank, Blank>>
        ELSE <<ListText(<<cost[1], cost[2]>>), Str(cost[3])>>)

\* Nutrient vectors: one fill value in every slot but one.
NutrientVectors ==
    { [i \in 1..15 |-> IF i = hot THEN v ELSE fill] :
        hot \in 1..15, v \in {<<>>, T0, T15}, fill \in {<<>>, T2} }

\* A row's cost fields: none when its first two nutrients are blank.
CostOf(nv) ==
    IF nv[1] = <<>> /\ nv[2] = <<>> THEN <<>>
    ELSE <<<<"2", ".", "2", "3">>, <<"5">>, <<"0", ".", "4", "4", "6">>>>

T2996 == <<"2", ".", "9", "9", "6">>

AmountTexts == { <<>>, T0, T2, T15, T100, T2996, <<".">>, <<"+">> }

Modes == { <<TRUE, FALSE>>, <<FALSE, FALSE>>, <<FALSE, TRUE>> }   \* <<tally, edit>>

NameOf(k) == <<<<"a">>, <<"b">>, <<"a", "b">>, <<"b", "a">>>>[k]

\* A single entry, of serving size 60 g, with any of the vectors above.
SingleCalls ==
    { [entries |-> <<CatalogRow(NameOf(1), <<<<"g", <<"6", "0">>>>>>, nv, CostOf(nv))>>,
       amounts |-> <<<<a, u>>>>, tally |-> m[1], edit |-> m[2]] :
        nv \in NutrientVectors, a \in AmountTexts, u \in {"Serving(s)", "g"}, m \in Modes }

\* The rows of tests/test_data.py (cereal, peanut butter) and one whose
\* serving size is 0 g.
Cereal(name) ==
    CatalogRow(name, <<<<"g", <<"6", "0">>>>>>,
               <<<<"2", "0", "0">>, T15, T0, T0, T0, T0, T0, <<"1", "0">>, <<"4", "8">>,
                 <<"8">>, T2, <<"6">>, T0, T0, <<"7">>>>,
               <<<<"2", ".", "0", "0">>, <<"8">>, <<"0", ".", "2", "5">>>>)

PeanutButter(name) ==
    CatalogRow(name, <<<<"g", <<"3", "2">>>>, <<"tbsp", T2>>>>, [i \in 1..15 |-> <<>>], <<>>)

ZeroSize(name) ==
    CatalogRow(name, <<<<"g", T0>>>>, [i \in 1..15 |-> T2], <<>>)

ListAmountTexts == { <<>>, T2, T15, <<".">> }

\* Lists of 1..MaxEntries entries, each with its amount and unit.
ListItems(k) ==
    { <<r, <<a, u>>>> :
        r \in {Cereal(NameOf(k)), PeanutButter(NameOf(k)), ZeroSize(NameOf(k))},
        a \in ListAmountTexts, u \in {"Serving(s)", "g"} }

RECURSIVE ItemLists(_)
ItemLists(n) ==
    IF n = 0 THEN {<<>>}
    ELSE {Append(l, it) : l \in ItemLists(n - 1), it \in ListItems(n)}

ListCalls ==
    { [entries |-> [i \in 1..Len(l) |-> l[i][1]], amounts |-> [i \in 1..Len(l) |-> l[i][2]],
       tally |-> m[1], edit |-> m[2]] :
        l \in UNION {ItemLists(n) : n \in 1..MaxEntries}, m \in Modes }

-----------------------------------------------------------------------------
(* The state of the application when no window is open, and of the         *)
(* harness when no data function is under test.                            *)

NoFile == [exists |-> FALSE, rows |-> <<>>]
NoRet == [kind |-> "none", msg |-> "", rows |-> <<>>]
NoLast == [op |-> "none"]
NoDlg == [open |-> <<>>, cur |-> FALSE]
NoLogs == [d \in {} |-> <<>>]
NoTotals == [all |-> <<>>, selected |-> <<>>]

\* datetime.date.today(), the same day throughout.
Today == [y |-> 2020, m |-> 7, d |-> 1]

AppIdle ==
    /\ fd = NoFile /\ win = "none" /\ table = <<>> /\ dlg = NoDlg
    /\ editName = <<>> /\ msg = "" /\ last = NoLast
    /\ logs = NoLogs /\ date = Today /\ totals = NoTotals

appVars == <<fd, win, table, dlg, editName, msg, last, logs, date, totals>>

-----------------------------------------------------------------------------
(* SpecCalc: calculate_entry_info applied to the calls above.              *)

InitCalc ==
    /\ pc = "call" /\ fn = "calculate_entry_info"
    /\ args \in SingleCalls \cup ListCalls
    /\ ret = NoRet /\ after = <<>>
    /\ AppIdle

CallCalculateEntryInfo ==
    /\ pc = "call" /\ fn = "calculate_entry_info"
    /\ \E r \in {calculate_entry_info(args.entries, args.amounts, args.tally, args.edit)} :
           /\ ret' = [kind |-> r.kind, msg |-> r.msg, rows |-> r.rows]
           /\ after' = r.entries
    /\ pc' = "done"
    /\ UNCHANGED <<fn, args>> /\ UNCHANGED appVars

SpecCalc == InitCalc /\ [][CallCalculateEntryInfo]_vars

CalcDone == pc = "done" /\ fn = "calculate_entry_info"

-----------------------------------------------------------------------------
(* Claims about calculate_entry_info (under SpecCalc).                     *)

\* The catalog positions that hold the 15 nutrients and the unit cost, and
\* where each lands in a scaled row.
Slots == (3..17) \cup {19}
OutSlot(j) == IF j <= 17 THEN j + 1 ELSE 19

Numeric(pair) == float_(pair[1]).ok

\* The serving size the unit names is not zero (any size, for servings).
SizeNonZero(row, pair) ==
    pair[2] = "Serving(s)" \/ float_(DictGet(row[2].x, pair[2])).n # 0

\* The multiplier m: the amount, or the amount over the serving size.
Multiplier(row, pair) ==
    LET a == float_(pair[1])
        sz == float_(DictGet(row[2].x, pair[2]))
    IN  IF pair[2] = "Serving(s)" THEN Rat(a.n, a.d)
        ELSE Rat(a.n * sz.d, a.d * sz.n)

\* round(value * m, 2), an int when it has no fractional part.
Scaled(text, m) ==
    LET v == float_(text)
        h == RoundHalfEven(100 * v.n * m.n, v.d * m.d)
    IN  IF h % 100 = 0 THEN PyInt(h \div 100) ELSE PyFloat(h)

RowScaledBy(row, out, m) ==
    \A j \in Slots :
        row[j].s # <<>> => out[OutSlot(j)] = Scaled(row[j].s, m)

\* C1: when every amount is numeric and every serving size used is not zero,
\* the function returns one row per entry, and in every row it returns each
\* present slot of the 15 nutrients and the unit cost is round(value * m, 2),
\* m being the amount for "Serving(s)" and amount / serving size otherwise,
\* as an int when it has no fractional part.
C1_ScaledValues ==
    CalcDone =>
        /\ (\A k \in 1..Len(args.entries) :
                Numeric(args.amounts[k]) /\ SizeNonZero(args.entries[k], args.amounts[k]))
            => ret.kind = "list" /\ Len(ret.rows) = Len(args.entries)
        /\ ret.kind = "list" =>
            \A k \in 1..Len(args.entries) :
                Numeric(args.amounts[k]) =>
                    RowScaledBy(args.entries[k], ret.rows[k],
                                Multiplier(args.entries[k], args.amounts[k]))

\* 100 g of a row whose serving is 60 g: a multiplier with no finite decimal
\* expansion, and a scaled value that keeps its fraction.
C1_Witness ==
    /\ CalcDone /\ ret.kind = "list"
    /\ args.amounts[1] = <<T100, "g">>
    /\ float_(DictGet(args.entries[1][2].x, "g")).n = 60
    /\ \E j \in Slots : ret.rows[1][OutSlot(j)].ty = "float"
    /\ \E j \in Slots : ret.rows[1][OutSlot(j)].ty = "int"

\* C2: in strict and in tally mode, every row returned is blank at exactly
\* the slots where the catalog row is blank: a blank is never a number and a
\* present value (0 too) is never blank.
C2_AbsentSlotsKept ==
    CalcDone /\ ret.kind = "list" =>
        \A k \in 1..Len(args.entries) :
            /\ Len(ret.rows[k]) = 19
            /\ \A j \in Slots :
                /\ args.entries[k][j].s = <<>> <=> ret.rows[k][OutSlot(j)] = Blank
                /\ args.entries[k][j].s # <<>> =>
                       ret.rows[k][OutSlot(j)].ty \in {"int", "float"}

\* A tally of a row that has both blank slots and a slot holding 0.
C2_Witness ==
    /\ CalcDone /\ ret.kind = "list" /\ args.tally
    /\ \E j \in Slots : args.entries[1][j] = Blank /\ ret.rows[1][OutSlot(j)] = Blank
    /\ \E j \in Slots : args.entries[1][j] = Str(T0) /\ ret.rows[1][OutSlot(j)] = PyInt(0)

BadAmounts == {k \in 1..Len(args.amounts) : ~Numeric(args.amounts[k])}

FirstBad == CHOOSE k \in BadAmounts : \A i \in BadAmounts : k <= i

StrictError(pair, edit) ==
    IF pair[1] = <<>>
    THEN (IF edit THEN "no amount given (log edit)" ELSE "no amount given (log add)")
    ELSE "invalid amount"

\* C3: in strict mode a call with a blank or non-numeric amount returns no
\* rows; the message it returns is that of the first such amount, 'no amount
\* given (log add)' / '(log edit)' for a blank one and 'invalid amount'
\* otherwise; and it does return it whenever the entries before that amount
\* were scaled.
C3_StrictErrors ==
    CalcDone /\ ~args.tally =>
        /\ BadAmounts # {} => ret.kind # "list" /\ ret.rows = <<>>
        /\ ret.kind = "str" =>
               BadAmounts # {} /\ ret.msg = StrictError(args.amounts[FirstBad], args.edit)
        /\ (/\ BadAmounts # {}
            /\ \A i \in 1..(FirstBad - 1) : SizeNonZero(args.entries[i], args.amounts[i]))
            => ret.kind = "str"

\* A blank amount behind a valid one, while editing.
C3_Witness ==
    /\ CalcDone /\ ~args.tally /\ args.edit
    /\ Len(args.amounts) = 2 /\ Numeric(args.amounts[1]) /\ args.amounts[2][1] = <<>>
    /\ ret.kind = "str" /\ ret.msg = "no amount given (log edit)"

\* C4 (as claimed): in tally mode the function always returns rows; an entry
\* whose amount is blank or not numeric gets num_servings 0, every present
\* slot 0 and every blank slot blank; the others are scaled as in C1.
C4_TallyNeverFails ==
    CalcDone /\ args.tally =>
        /\ ret.kind = "list" /\ Len(ret.rows) = Len(args.entries)
        /\ \A k \in 1..Len(args.entries) :
            IF Numeric(args.amounts[k])
            THEN RowScaledBy(args.entries[k], ret.rows[k],
                             Multiplier(args.entries[k], args.amounts[k]))
            ELSE /\ ret.rows[k][3] = PyInt(0)
                 /\ \A j \in Slots :
                      ret.rows[k][OutSlot(j)] =
                          IF args.entries[k][j].s = <<>> THEN Blank ELSE PyInt(0)

\* C24 (as claimed): the num_servings field of every row returned is the
\* multiplier rounded to 2 decimals, an int whenever the rounded value has no
\* fractional part (0 for an amount that tally mode counts as 0).
C24_ServingsRounded ==
    CalcDone /\ ret.kind = "list" =>
        \A k \in 1..Len(args.entries) :
            ret.rows[k][3] =
                IF Numeric(args.amounts[k])
                THEN Collapse(Round2(Multiplier(args.entries[k], args.amounts[k])))
                ELSE PyInt(0)

\* C5 (as claimed): after any call, the rows passed in are as they were.
C5_NoSideEffect == CalcDone => after = args.entries

-----------------------------------------------------------------------------
(* SpecSum: sum_shared_values applied to 0..MaxEntries rows of equal       *)
(* width 1..MaxWidth.  The values: blank, '1', the float 0.5 (as           *)
(* calculate_entry_info leaves it) and '2.999'.                            *)

SumValues == { Blank, Str(<<"1">>), PyFloat(50), Str(<<"2", ".", "9", "9", "9">>) }

RECURSIVE SeqsOf(_, _)
SeqsOf(S, n) ==
    IF n = 0 THEN {<<>>} ELSE {Append(q, e) : q \in SeqsOf(S, n - 1), e \in S}

SumCalls ==
    UNION { SeqsOf(SeqsOf(SumValues, w), n) : w \in 1..MaxWidth, n \in 0..MaxEntries }

InitSum ==
    /\ pc = "call" /\ fn = "sum_shared_values"
    /\ args \in SumCalls
    /\ ret = NoRet /\ after = <<>>
    /\ AppIdle

CallSumSharedValues ==
    /\ pc = "call" /\ fn = "sum_shared_values"
    /\ ret' = sum_shared_values(args)
    /\ after' = args
    /\ pc' = "done"
    /\ UNCHANGED <<fn, args>> /\ UNCHANGED appVars

SpecSum == InitSum /\ [][CallSumSharedValues]_vars

SumDone == pc = "done" /\ fn = "sum_shared_values"

\* The exact sum of a column, a blank counting as 0.
RECURSIVE ExactSum(_, _, _)
ExactSum(rows, col, n) ==
    IF n = 0 THEN Rat(0, 1)
    ELSE LET v == rows[n][col]
             f == IF v = Blank THEN Rat(0, 1) ELSE Rat(ToFloat(v).n, ToFloat(v).d)
         IN  RatAdd(ExactSum(rows, col, n - 1), f)

\* A number of hundredths as text, an integer when it has no fraction.
Rendered(h) == IF h % 100 = 0 THEN Str(StrOfInt(h \div 100)) ELSE Str(StrOfFloat(h))

\* C6 (as claimed): for a non-empty list of rows of one width, the result
\* has that width and holds at each position the sum of the column, a blank
\* counting as 0, rounded to 2 places and written as an integer when the
\* rounded value is whole.
C6_SumRounded ==
    SumDone /\ args # <<>> =>
        /\ ret.kind = "list"
        /\ Len(ret.rows) = Len(args[1])
        /\ \A c \in 1..Len(args[1]) :
               ret.rows[c] = Rendered(Round2(ExactSum(args, c, Len(args))))

\* C27: sum_shared_values of no rows returns, and what it returns is the
\* empty list: no exception and no total.
C27_EmptySum ==
    SumDone /\ args = <<>> => ret = [kind |-> "list", msg |-> "", rows |-> <<>>]

\* The call with no rows has returned.
C27_Witness == SumDone /\ args = <<>> /\ after = <<>> /\ ret.kind # "none"

-----------------------------------------------------------------------------
(* SpecGet: get_entries and get_file_entry_names applied to a file that    *)
(* is absent or holds up to MaxRows rows of distinct names.                *)

Names == { <<"a">>, <<"a", "b">>, <<"b">> }

\* A row of a file, of which the reads look at the name only.
NamedRow(name) == CatalogRow(name, <<<<"g", T2>>>>, [i \in 1..15 |-> <<>>], <<>>)

Distinct(q) == \A i, j \in 1..Len(q) : i # j => q[i] # q[j]

Files ==
    {NoFile} \cup
    { [exists |-> TRUE, rows |-> [i \in 1..Len(q) |-> NamedRow(q[i])]] :
        q \in {x \in UNION {SeqsOf(Names, n) : n \in 0..MaxRows} : Distinct(x)} }

NameArgs ==
    {NoNames} \cup {NameList(l) : l \in UNION {SeqsOf(Names, n) : n \in 0..MaxNames}}

InitGet ==
    /\ pc = "call" /\ fn \in {"get_entries", "get_file_entry_names"}
    /\ args \in [file : Files, entry_names : NameArgs, match : BOOLEAN, return_all : BOOLEAN]
    /\ fn = "get_file_entry_names" =>
           args.entry_names = NoNames /\ args.match /\ ~args.return_all
    /\ ret = NoRet /\ after = <<>>
    /\ AppIdle

CallGetEntries ==
    /\ pc = "call" /\ fn = "get_entries"
    /\ ret' = get_entries(args.file, args.entry_names, args.match, args.return_all)
    /\ after' = args.file.rows
    /\ pc' = "done"
    /\ UNCHANGED <<fn, args>> /\ UNCHANGED appVars

CallGetFileEntryNames ==
    /\ pc = "call" /\ fn = "get_file_entry_names"
    /\ ret' = get_file_entry_names(args.file)
    /\ after' = args.file.rows
    /\ pc' = "done"
    /\ UNCHANGED <<fn, args>> /\ UNCHANGED appVars

SpecGet == InitGet /\ [][CallGetEntries \/ CallGetFileEntryNames]_vars

GetDone == pc = "done" /\ fn \in {"get_entries", "get_file_entry_names"}

\* C7 (as claimed): every read of a file that is absent (all rows, rows by
\* names with match true or false, the names) returns 'file not found'.
C7_AbsentIsNotFound ==
    GetDone /\ ~args.file.exists => ret.kind = "str" /\ ret.msg = "file not found"

NamesOf(rows) == [i \in 1..Len(rows) |-> rows[i][1].s]

InList(name, l) == \E i \in 1..Len(l) : l[i] = name

\* C8 (as claimed): for a list of names (the empty one too), match=True
\* returns the rows whose name is in the list, in the order of the list, and
\* match=False the rows whose name is not in it, in the order of the file.
C8_FindByNames ==
    (/\ GetDone /\ fn = "get_entries" /\ args.file.exists
     /\ ~args.return_all /\ args.entry_names.ty = "list")
    => LET l == args.entry_names.items
           rows == args.file.rows
       IN  /\ ret.kind = "list"
           /\ \A i \in 1..Len(ret.rows) : InList(ret.rows[i], rows)
           /\ IF args.match
              THEN NamesOf(ret.rows) = SelectSeq(l, LAMBDA n : InList(n, NamesOf(rows)))
              ELSE ret.rows = SelectSeq(rows, LAMBDA r : ~InList(r[1].s, l))

-----------------------------------------------------------------------------
(* The food dictionary windows of interface.py: FoodDictWin and            *)
(* EditFoodDictWin.  The file FD_PATH is fd: absent, or the rows that      *)
(* csv.reader yields (every field a str).                                  *)

MaxDialogs == 2      \* confirmation dialogs open at once
MaxCatalog == 4      \* rows of the food dictionary

\* ord(c) of the characters that names and the paths of log files are made
\* of.
CharCode(c) ==
    CASE c = "A" -> 65 [] c = "a" -> 97 [] c = "b" -> 98
      [] c = " " -> 32 [] c = "-" -> 45 [] c = "." -> 46 [] c = "/" -> 47
      [] IsDigit(c) -> 48 + DigitVal(c)
      [] c = "J" -> 74 [] c = "\\" -> 92
      [] c = "c" -> 99 [] c = "e" -> 101 [] c = "l" -> 108 [] c = "n" -> 110
      [] c = "s" -> 115 [] c = "u" -> 117 [] c = "v" -> 118 [] c = "y" -> 121
      [] OTHER -> 0

\* a < b for two str
RECURSIVE TextLess(_, _)
TextLess(a, b) ==
    IF b = <<>> THEN FALSE
    ELSE IF a = <<>> THEN TRUE
    ELSE IF a[1] # b[1] THEN CharCode(a[1]) < CharCode(b[1])
    ELSE TextLess(Tail(a), Tail(b))

\* A dict and a list as add_or_edit_entry builds them.
PyDict(opts) == [ty |-> "dict", s |-> <<>>, h |-> 0, x |-> opts]
PyList(items) == [ty |-> "list", s |-> <<>>, h |-> 0, x |-> items]

\* What csv.writer writes for a field and csv.reader reads back: str(field).
CsvField(v) ==
    CASE v.ty = "dict" -> DictText(v.x)
      [] v.ty = "list" -> ListText(v.x)
      [] v.ty = "int" -> Str(StrOfInt(v.h \div 100))
      [] v.ty = "float" -> Str(StrOfFloat(v.h))
      [] OTHER -> v

CsvRow(row) == [i \in 1..Len(row) |-> CsvField(row[i])]

\* f"{x:.2f}" of a number that is not negative
Fixed2(x) ==
    LET h == Round2(x)
    IN  NatToDigits(h \div 100) \o <<".">>
        \o <<Digits[((h % 100) \div 10) + 1], Digits[(h % 10) + 1]>>

\* round(x, 3), in thousandths, and str() of such a float (not negative).
Round3(x) == RoundHalfEven(1000 * x.n, x.d)

StrOfFloat3(t) ==
    LET f == t % 1000
        d1 == <<Digits[(f \div 100) + 1]>>
        d2 == <<Digits[((f \div 10) % 10) + 1]>>
        d3 == <<Digits[(f % 10) + 1]>>
    IN  NatToDigits(t \div 1000) \o <<".">>
        \o (IF f % 10 # 0 THEN d1 \o d2 \o d3
            ELSE IF f % 100 # 0 THEN d1 \o d2
            ELSE d1)

\* serv_size_options[unit] = amount
DictSet(opts, unit, amount) ==
    IF HasKey(opts, unit)
    THEN [i \in 1..Len(opts) |-> IF opts[i][1] = unit THEN <<unit, amount>> ELSE opts[i]]
    ELSE Append(opts, <<unit, amount>>)

\* Lines 1858-1871: the serving sizes of the three input rows (<<amount,
\* unit>> each): the dict, or invalid when an amount is no float.
RECURSIVE ServSizeOptions(_, _)
ServSizeOptions(slots, opts) ==
    IF slots = <<>> THEN [ok |-> TRUE, opts |-> opts]
    ELSE IF slots[1][1] = <<>> THEN ServSizeOptions(Tail(slots), opts)
    ELSE IF ~float_(slots[1][1]).ok THEN [ok |-> FALSE, opts |-> <<>>]
    ELSE ServSizeOptions(Tail(slots), DictSet(opts, slots[1][2], slots[1][1]))

\* CostFields with the cost per serving rounded to 2 decimals.
CostFieldsRoundedTo2(total_cost, serv_per_container) ==
    LET total == float_(total_cost)
        per == float_(serv_per_container)
        whole == RatIsInt(Rat(per.n, per.d))
        count == IF whole THEN StrOfInt(per.n \div per.d)
                 ELSE StrOfFloat(Round2(Rat(per.n, per.d)))
        each == Round2(RatDiv(Rat(total.n, total.d), Rat(per.n, per.d)))
        stop(m) == [msg |-> m, fields |-> <<>>]
    IN  IF (total_cost = <<>>) # (serv_per_container = <<>>) THEN stop("missing cost info")
        ELSE IF total_cost = <<>> THEN [msg |-> "", fields |-> <<Blank, Blank>>]
        ELSE IF ~total.ok \/ ~per.ok THEN stop("invalid fd entry info")
        ELSE IF per.n = 0 THEN stop("ZeroDivisionError")
        ELSE [msg |-> "",
              fields |-> <<PyList(<<Fixed2(Rat(total.n, total.d)), count>>),
                           Str(StrOfFloat(each))>>]

\* Lines 1908-1929: the two cost fields of the entry, or the message, or
\* the exception raised.
CostFields(total_cost, serv_per_container) ==
    LET total == float_(total_cost)
        per == float_(serv_per_container)
        whole == RatIsInt(Rat(per.n, per.d))
        count == IF whole THEN StrOfInt(per.n \div per.d)
                 ELSE StrOfFloat(Round2(Rat(per.n, per.d)))
        each == Round3(RatDiv(Rat(total.n, total.d), Rat(per.n, per.d)))
        stop(m) == [msg |-> m, fields |-> <<>>]
    IN  IF (total_cost = <<>>) # (serv_per_container = <<>>) THEN stop("missing cost info")
        ELSE IF total_cost = <<>> THEN [msg |-> "", fields |-> <<Blank, Blank>>]
        ELSE IF ~total.ok \/ ~per.ok THEN stop("invalid fd entry info")
        ELSE IF per.n = 0 THEN stop("ZeroDivisionError")
        ELSE [msg |-> "",
              fields |-> <<PyList(<<Fixed2(Rat(total.n, total.d)), count>>),
                           Str(StrOfFloat3(each))>>]

\* Lines 1842-1855 with the test skipped whenever an entry is being edited.
DuplicateNameNewOnly(file, entry_name, edit_entry_name) ==
    /\ file.exists
    /\ \E i \in 1..Len(file.rows) : file.rows[i][1].s = entry_name
    /\ edit_entry_name = <<>>

\* Lines 1842-1855: the name is that of a line of the file, and the user is
\* not editing the entry of that name.
DuplicateName(file, entry_name, edit_entry_name) ==
    /\ file.exists
    /\ \E i \in 1..Len(file.rows) : file.rows[i][1].s = entry_name
    /\ ~(edit_entry_name # <<>> /\ entry_name = edit_entry_name)

\* Lines 1931-1935: the rows to keep; edit_entry_name is passed as it is,
\* a str.
EntriesToWrite(file, edit_entry_name) ==
    IF edit_entry_name # <<>>
    THEN get_entries(file, NameStr(edit_entry_name), FALSE, FALSE)
    ELSE get_entries(file, NoNames, TRUE, TRUE)

\* Lines 1942-1943 without the sort: the entry stays where append put it.
InsertRowAtEnd(row, sorted) == Append(sorted, row)

\* list.sort() of rows whose names differ: by name.  (Rows of one name are
\* left in their order; see NameClash for the entry.)
InsertRow(row, sorted) ==
    LET after_ == {i \in 1..Len(sorted) : TextLess(row[1].s, sorted[i][1].s)}
        at == IF after_ = {} THEN Len(sorted) + 1
              ELSE CHOOSE i \in after_ : \A j \in after_ : i <= j
    IN  SubSeq(sorted, 1, at - 1) \o <<row>> \o SubSeq(sorted, at, Len(sorted))

RECURSIVE SortRows(_)
SortRows(rows) ==
    IF rows = <<>> THEN <<>>
    ELSE InsertRow(rows[Len(rows)], SortRows(SubSeq(rows, 1, Len(rows) - 1)))

\* The sort compares the entry with a row of its name: a dict with a str.
NameClash(rows, entry) == \E i \in 1..Len(rows) : rows[i][1].s = entry[1].s

\* EditFoodDictWin.add_or_edit_entry on the form the user filled in: the
\* message shown (or the exception raised; "" for neither), the file after
\* it and the entry as written.
add_or_edit_entry(file, form, edit_entry_name) ==
    LET stop(m) == [msg |-> m, file |-> file, entry |-> <<>>]
        sizes == ServSizeOptions(form.slots, <<>>)
        cost == CostFields(form.total_cost, form.serv_per_container)
        entry == <<Str(form.name), PyDict(sizes.opts)>>
                 \o [i \in 1..15 |-> Str(form.nutrients[i])] \o cost.fields
        kept == EntriesToWrite(file, edit_entry_name)
        rows == IF kept.kind = "str" THEN <<entry>>
                ELSE SortRows(Append(kept.rows, entry))
    IN  IF form.name = <<>> THEN stop("no name")
        ELSE IF DuplicateName(file, form.name, edit_entry_name)
          THEN stop("duplicate fd entry")
        ELSE IF ~sizes.ok THEN stop("invalid serving size amount")
        ELSE IF sizes.opts = <<>> THEN stop("blank serving")
        ELSE IF \E i \in 1..15 :
                  form.nutrients[i] # <<>> /\ ~float_(form.nutrients[i]).ok
          THEN stop("invalid fd entry info")
        ELSE IF cost.msg # "" THEN stop(cost.msg)
        ELSE IF kept.kind # "str" /\ NameClash(kept.rows, entry) THEN stop("TypeError")
        ELSE [msg |-> "",
              file |-> [exists |-> TRUE, rows |-> [i \in 1..Len(rows) |-> CsvRow(rows[i])]],
              entry |-> CsvRow(entry)]

\* The item of the table when there is no file (lines 1268-1274).
NoFdItem == <<"There are currently no entries in the food dictionary.">>

\* FoodDictWin.init_ui, lines 1266-1300: the table, nothing checked.
FdTable(file) ==
    IF ~file.exists
    THEN <<[name |-> NoFdItem, checked |-> FALSE, checkable |-> FALSE]>>
    ELSE [i \in 1..Len(file.rows) |->
             [name |-> file.rows[i][1].s, checked |-> FALSE, checkable |-> TRUE]]

\* data.get_table_entry_names: all names, the checked, the unchecked.
get_table_entry_names(t) ==
    LET names(q) == [i \in 1..Len(q) |-> q[i].name]
    IN  <<names(t),
          names(SelectSeq(t, LAMBDA r : r.checked)),
          names(SelectSeq(t, LAMBDA r : ~r.checked))>>

\* data.select_all_entries / unselect_all_entries
SetAllChecked(t, state) == [i \in 1..Len(t) |-> [t[i] EXCEPT !.checked = state]]

-----------------------------------------------------------------------------
(* What the user can type into EditFoodDictWin.                            *)

FdNames == { <<"a">>, <<"a", "b">>, <<"A">> }

Form(name, slots, cal, total_cost, serv_per_container) ==
    [name |-> name, slots |-> slots,
     nutrients |-> [i \in 1..15 |-> IF i = 1 THEN cal ELSE <<>>],
     total_cost |-> total_cost, serv_per_container |-> serv_per_container]

\* The three rows of serving size inputs: <<amount, unit>>.
OneSize == <<<<T2, "g">>, <<<<>>, "g">>, <<<<>>, "g">>>>
TwoSizes == <<<<T2, "g">>, <<T15, "tbsp">>, <<T0, "g">>>>
NoSize == <<<<<<>>, "g">>, <<<<>>, "g">>, <<<<>>, "g">>>>
BadSize == <<<<<<".">>, "g">>, <<<<>>, "g">>, <<<<>>, "g">>>>

\* Two forms that are in order, and forms with one thing or two amiss.
Forms ==
    { Form(n, f[1], f[2], f[3], f[4]) :
        n \in FdNames \cup {<<>>},
        f \in { <<OneSize, <<>>, <<>>, <<>>>>,
                <<TwoSizes, T15, T2, <<"3">>>>,
                <<NoSize, <<>>, <<>>, <<>>>>,
                <<BadSize, <<"+">>, <<>>, <<>>>>,
                <<OneSize, <<"+">>, T2, <<>>>>,
                <<OneSize, <<>>, T2, <<>>>>,
                <<OneSize, <<>>, <<>>, T2>>,
                <<OneSize, <<>>, <<"+">>, T2>>,
                <<OneSize, <<>>, T2, T0>> } }

-----------------------------------------------------------------------------
(* The log files and what LogsWin shows of the one of its date.            *)

logVars == <<logs, date, totals>>

\* The file at log_file_path, as get_entries sees it.
LogFile(files, d) ==
    IF d \in DOMAIN files THEN [exists |-> TRUE, rows |-> files[d]] ELSE NoFile

\* open(log_file_path, 'w') and writerows(rows)
WriteLog(files, d, rows) ==
    [x \in (DOMAIN files) \cup {d} |-> IF x = d THEN rows ELSE files[x]]

\* os.remove(log_file_path)
RemoveLog(files, d) == [x \in (DOMAIN files) \ {d} |-> files[x]]

\* The item of the table when there is no log file (lines 198-203).
NoLogItem == <<"There is no log file for this date.">>

\* LogsWin.init_ui, lines 197-217: the table, nothing checked.
LogTable(file) ==
    IF ~file.exists
    THEN <<[name |-> NoLogItem, checked |-> FALSE, checkable |-> FALSE]>>
    ELSE [i \in 1..Len(file.rows) |->
             [name |-> file.rows[i][1].s, checked |-> FALSE, checkable |-> TRUE]]

\* del entry[:3] of every entry
TallyRows(rows) == [i \in 1..Len(rows) |-> SubSeq(rows[i], 4, Len(rows[i]))]

\* A row of the totals table without its title: 16 items, blank until set.
BlankTotals == [i \in 1..16 |-> <<>>]

\* Lines 244-252 and 634-642: the sums as the items of a totals row, the
\* cost with 2 decimal places; "raise" when sum_shared_values raises.
TotalsItems(sums) ==
    IF sums.kind = "raise" THEN <<"raise", sums.msg>>
    ELSE [i \in 1..16 |->
             IF i > Len(sums.rows) THEN <<>>
             ELSE IF i = 16 THEN Fixed2(ToFloat(sums.rows[i]))
             ELSE sums.rows[i].s]

\* The totals of the rows that have an entry in the food dictionary.
TotalsRowLive(rows) ==
    TotalsItems(sum_shared_values(TallyRows(
        SelectSeq(rows, LAMBDA row : fd.exists /\ InList(row[1], get_file_entry_names(fd).rows)))))

TotalsRow(rows) == TotalsItems(sum_shared_values(TallyRows(rows)))

\* selection_changed tallying the names of index 2 of
\* get_table_entry_names, the unchecked ones.
SelectedTotalsOfUnchecked(file, t) ==
    LET unchecked == get_table_entry_names(t)[3]
    IN  IF unchecked = <<>> THEN BlankTotals
        ELSE TotalsRow(get_entries(file, NameList(unchecked), TRUE, FALSE).rows)

\* LogsWin.selection_changed: the row 'Selected entries'.
SelectedTotals(file, t) ==
    LET checked == get_table_entry_names(t)[2]
    IN  IF checked = <<>> THEN BlankTotals
        ELSE TotalsRow(get_entries(file, NameList(checked), TRUE, FALSE).rows)

\* LogsWin(d) is shown and the window before it closed.
ShowLogsWin(files, d) ==
    /\ win' = "logs" /\ date' = d
    /\ table' = LogTable(LogFile(files, d))
    /\ totals' = [all |-> IF d \in DOMAIN files THEN TotalsRow(files[d]) ELSE BlankTotals,
                  selected |-> BlankTotals]
    /\ dlg' = NoDlg /\ editName' = <<>>

-----------------------------------------------------------------------------
(* SpecFD: the user at the food dictionary, from a start without a file.   *)

harnessVars == <<pc, fn, args, ret, after>>

\* A row of a log as add_to_log wrote it for 2 servings: the name, the
\* amount and unit, the number of servings, 15 nutrients and the cost.
LoggedRow(name, values) ==
    <<Str(name), ListText(<<Str(T2), "Serving(s)">>), Str(T2)>>
    \o [i \in 1..16 |-> Str(values[i])]

\* The rows of a log to which 2 servings of cereal ("a") and of peanut
\* butter ("ab") were added.
LoggedRows ==
    << LoggedRow(NameOf(1),
                 <<<<"4", "0", "0">>, <<"3">>, T0, T0, T0, T0, T0, <<"2", "0">>,
                   <<"9", "6">>, <<"1", "6">>, <<"4">>, <<"1", "2">>, T0, T0,
                   <<"1", "4">>, <<"0", ".", "5">>>>),
       LoggedRow(NameOf(3), [i \in 1..16 |-> <<>>]) >>

\* The log files there are when the program starts: none, or the log of
\* today of one or two rows; the food dictionary they were added from is
\* gone.
StoredLogs ==
    { NoLogs, WriteLog(NoLogs, Today, SubSeq(LoggedRows, 1, 1)),
      WriteLog(NoLogs, Today, LoggedRows) }

InitFD ==
    /\ pc = "idle" /\ fn = "none" /\ args = <<>> /\ ret = NoRet /\ after = <<>>
    /\ fd = NoFile /\ win = "logs" /\ dlg = NoDlg
    /\ editName = <<>> /\ msg = "" /\ last = NoLast
    /\ logs \in StoredLogs /\ date = Today
    /\ table = LogTable(LogFile(logs, date))
    /\ totals = [all |-> IF date \in DOMAIN logs THEN TotalsRow(logs[date])
                         ELSE BlankTotals,
                 selected |-> BlankTotals]

\* FoodDictWin() is shown and the window before it closed.
ShowFoodDictWin(file) ==
    /\ win' = "fd" /\ table' = FdTable(file) /\ dlg' = NoDlg /\ editName' = <<>>

\* A MessageWin is shown and the handler returns.
ShowMessage(key) ==
    /\ msg' = key /\ last' = NoLast
    /\ UNCHANGED <<fd, win, table, dlg, editName>>

\* LogsWin.goto_fd_win
LogsGotoFdWin ==
    /\ win = "logs"
    /\ ShowFoodDictWin(fd)
    /\ date' = Today /\ totals' = NoTotals
    /\ msg' = "" /\ last' = NoLast
    /\ UNCHANGED <<fd, logs>> /\ UNCHANGED harnessVars

\* FoodDictWin.goto_log_win: LogsWin(datetime.date.today())
GotoLogWin ==
    /\ win = "fd"
    /\ ShowLogsWin(logs, Today)
    /\ msg' = "" /\ last' = NoLast
    /\ UNCHANGED <<fd, logs>> /\ UNCHANGED harnessVars

\* FoodDictWin.add_entries_to_fd
AddEntriesToFd ==
    /\ win = "fd"
    /\ win' = "editfd" /\ editName' = <<>> /\ table' = <<>> /\ dlg' = NoDlg
    /\ msg' = "" /\ last' = NoLast
    /\ UNCHANGED fd /\ UNCHANGED harnessVars /\ UNCHANGED logVars

\* The user clicks the checkbox of a row of fd_table.
ToggleCheck ==
    /\ win = "fd"
    /\ \E i \in 1..Len(table) :
           /\ table[i].checkable
           /\ table' = [table EXCEPT ![i].checked = ~table[i].checked]
    /\ msg' = "" /\ last' = NoLast
    /\ UNCHANGED <<fd, win, dlg, editName>> /\ UNCHANGED harnessVars /\ UNCHANGED logVars

\* FoodDictWin.select_all
SelectAll ==
    /\ win = "fd"
    /\ table' = IF fd.exists THEN SetAllChecked(table, TRUE) ELSE table
    /\ msg' = "" /\ last' = NoLast
    /\ UNCHANGED <<fd, win, dlg, editName>> /\ UNCHANGED harnessVars /\ UNCHANGED logVars

\* FoodDictWin.unselect_all
UnselectAll ==
    /\ win = "fd"
    /\ table' = IF fd.exists THEN SetAllChecked(table, FALSE) ELSE table
    /\ msg' = "" /\ last' = NoLast
    /\ UNCHANGED <<fd, win, dlg, editName>> /\ UNCHANGED harnessVars /\ UNCHANGED logVars

\* FoodDictWin.edit_entry
EditEntry ==
    /\ win = "fd"
    /\ \E checked \in {get_table_entry_names(table)[2]} :
           IF ~fd.exists THEN ShowMessage("fd file not found (fd window)")
           ELSE IF Len(checked) # 1 THEN ShowMessage("no single fd entry selected")
           ELSE /\ win' = "editfd" /\ editName' = checked[1]
                /\ table' = <<>> /\ dlg' = NoDlg
                /\ msg' = "" /\ last' = NoLast
                /\ UNCHANGED fd
    /\ UNCHANGED harnessVars /\ UNCHANGED logVars

\* self.dlg = QDialog(self); self.dlg.show(): the dialog does not block the
\* window, and one opened before stays open.
OpenDialog(kind) ==
    /\ Len(dlg.open) < MaxDialogs
    /\ dlg' = [open |-> Append(dlg.open, kind), cur |-> TRUE]
    /\ msg' = "" /\ last' = NoLast
    /\ UNCHANGED <<fd, win, table, editName>>

\* FoodDictWin.confirm_delete_fd
ConfirmDeleteFd ==
    /\ win = "fd"
    /\ IF ~fd.exists THEN ShowMessage("fd file not found (fd window)")
       ELSE OpenDialog("delete")
    /\ UNCHANGED harnessVars /\ UNCHANGED logVars

\* FoodDictWin.remove_entries_confirmation
RemoveEntriesConfirmation ==
    /\ win = "fd"
    /\ \E names \in {get_table_entry_names(table)} :
           IF ~fd.exists THEN ShowMessage("fd file not found (fd window)")
           ELSE IF names[2] = <<>> THEN ShowMessage("no selected entries to remove")
           ELSE IF names[3] = <<>> THEN OpenDialog("delete")
           ELSE OpenDialog("remove")
    /\ UNCHANGED harnessVars /\ UNCHANGED logVars

\* FoodDictWin.close_win, on "Nevermind" of any open dialog: self.dlg.close()
CloseWin ==
    /\ win = "fd" /\ dlg.open # <<>>
    /\ dlg' = IF dlg.cur THEN [open |-> SubSeq(dlg.open, 1, Len(dlg.open) - 1), cur |-> FALSE]
              ELSE dlg
    /\ msg' = "" /\ last' = NoLast
    /\ UNCHANGED <<fd, win, table, editName>> /\ UNCHANGED harnessVars /\ UNCHANGED logVars

\* FoodDictWin.remove_entries_from_fd, on "Yes" of an open dialog of
\* remove_entries_confirmation
RemoveEntriesFromFd ==
    /\ win = "fd" /\ \E i \in 1..Len(dlg.open) : dlg.open[i] = "remove"
    /\ IF ~fd.exists THEN ShowMessage("fd file not found (fd window)")
       ELSE \E unchecked \in {get_table_entry_names(table)[3]} :
            \E keep \in {get_entries(fd, NameList(unchecked), TRUE, FALSE)} :
                /\ fd' = [exists |-> TRUE, rows |-> keep.rows]
                /\ ShowFoodDictWin([exists |-> TRUE, rows |-> keep.rows])
                /\ msg' = ""
                /\ last' = [op |-> "remove", before |-> fd, names |-> unchecked]
    /\ UNCHANGED harnessVars /\ UNCHANGED logVars

\* FoodDictWin.delete_fd, on "Yes" of an open dialog of confirm_delete_fd
DeleteFd ==
    /\ win = "fd" /\ \E i \in 1..Len(dlg.open) : dlg.open[i] = "delete"
    /\ IF ~fd.exists THEN ShowMessage("FileNotFoundError")
       ELSE /\ fd' = NoFile
            /\ ShowFoodDictWin(NoFile)
            /\ msg' = ""
            /\ last' = [op |-> "delete", before |-> fd]
    /\ UNCHANGED harnessVars /\ UNCHANGED logVars

\* EditFoodDictWin.goto_fd_win
EditGotoFdWin ==
    /\ win = "editfd"
    /\ ShowFoodDictWin(fd)
    /\ msg' = "" /\ last' = NoLast
    /\ UNCHANGED fd /\ UNCHANGED harnessVars /\ UNCHANGED logVars

\* EditFoodDictWin.add_or_edit_entry on "Add entry" / "Update entry"
AddOrEditEntry ==
    /\ win = "editfd"
    /\ \E form \in Forms : \E r \in {add_or_edit_entry(fd, form, editName)} :
           /\ Len(r.file.rows) <= MaxCatalog
           /\ fd' = r.file /\ msg' = r.msg
           /\ last' = [op |-> "upsert", before |-> fd, prev |-> editName,
                       name |-> form.name, entry |-> r.entry, form |-> form]
           /\ IF r.msg = "" THEN ShowFoodDictWin(r.file)
              ELSE UNCHANGED <<win, table, dlg, editName>>
    /\ UNCHANGED harnessVars /\ UNCHANGED logVars

\* LogsWin's log_table after the user's click or the select buttons, and
\* selection_changed, which itemChanged calls.
LogChecked(t) ==
    /\ table' = t
    /\ totals' = [totals EXCEPT !.selected = SelectedTotals(LogFile(logs, date), t)]
    /\ msg' = "" /\ last' = NoLast
    /\ UNCHANGED <<fd, win, dlg, editName, logs, date>>

\* The user clicks the checkbox of a row of log_table.
LogToggleCheck ==
    /\ win = "logs"
    /\ \E i \in 1..Len(table) :
           /\ table[i].checkable
           /\ LogChecked([table EXCEPT ![i].checked = ~table[i].checked])
    /\ UNCHANGED harnessVars

\* LogsWin.select_all
LogSelectAll ==
    /\ win = "logs"
    /\ LogChecked(IF date \in DOMAIN logs THEN SetAllChecked(table, TRUE) ELSE table)
    /\ UNCHANGED harnessVars

\* LogsWin.unselect_all
LogUnselectAll ==
    /\ win = "logs"
    /\ LogChecked(IF date \in DOMAIN logs THEN SetAllChecked(table, FALSE) ELSE table)
    /\ UNCHANGED harnessVars

NextFD ==
    \/ LogsGotoFdWin \/ GotoLogWin \/ AddEntriesToFd
    \/ LogToggleCheck \/ LogSelectAll \/ LogUnselectAll
    \/ ToggleCheck \/ SelectAll \/ UnselectAll \/ EditEntry
    \/ ConfirmDeleteFd \/ RemoveEntriesConfirmation \/ CloseWin
    \/ RemoveEntriesFromFd \/ DeleteFd
    \/ EditGotoFdWin \/ AddOrEditEntry

SpecFD == InitFD /\ [][NextFD]_vars

-----------------------------------------------------------------------------
(* Claims about the food dictionary, under SpecFD.                         *)

RowSet(file) == {file.rows[i] : i \in 1..Len(file.rows)}

\* The last handler was add_or_edit_entry.
Upserted == last.op = "upsert"

\* ... for an entry being edited, and it wrote the file.
Edited == Upserted /\ last.prev # <<>> /\ msg = ""

\* C9: an upsert that edits an entry removes exactly the row named
\* previous_name and inserts the new entry: the catalog afterwards is the
\* catalog before, less that one row, plus the entry; every other row is
\* still there, unchanged.
C9_EditReplacesOneRow ==
    Edited =>
        RowSet(fd) = {r \in RowSet(last.before) : r[1].s # last.prev} \cup {last.entry}

\* The upsert's name is that of an existing row other than the one edited.
NameTaken ==
    /\ Upserted
    /\ InList(last.name, NamesOf(last.before.rows))
    /\ last.name # last.prev

\* The upsert edits an entry and keeps its name.
KeepsName == Upserted /\ last.prev # <<>> /\ last.name = last.prev

\* C10: in every reachable state no two rows of the catalog have the same
\* name; an upsert whose name is that of a different existing row is
\* rejected as a duplicate and leaves the file as it was; an edit that
\* keeps its own name is not rejected as a duplicate, and when the form is
\* in order the entry is in the catalog afterwards.
C10_UniqueNames ==
    /\ Distinct(NamesOf(fd.rows))
    /\ NameTaken => (msg = "duplicate fd entry" /\ fd = last.before)
    /\ KeepsName =>
           /\ msg # "duplicate fd entry"
           /\ msg = "" => last.entry \in RowSet(fd) /\ last.entry[1].s = last.prev

\* An edit that renames an entry to the name of another row, rejected,
\* among two rows or more.
C10_Witness ==
    /\ NameTaken /\ last.prev # <<>>
    /\ msg = "duplicate fd entry"
    /\ Len(fd.rows) >= 2

\* C16 (as claimed): remove_entries_from_fd leaves the rows whose name is
\* not selected, and no file when there is no such row; in every reachable
\* state, whatever the order of the checks, the requests and the answers to
\* the dialogs, the food dictionary file is absent or holds one row at least.
C16_CatalogRemove ==
    /\ last.op = "remove" =>
           fd = IF last.names = <<>> THEN NoFile
                ELSE [exists |-> TRUE,
                      rows |-> SelectSeq(last.before.rows,
                                         LAMBDA row : InList(row[1].s, last.names))]
    /\ fd.exists => Len(fd.rows) >= 1

\* The sum of the numbers in a column of rows whose items there are blank
\* or digits.
RECURSIVE ColumnTotal(_, _)
ColumnTotal(rows, i) ==
    IF rows = <<>> THEN 0
    ELSE (IF rows[1][i].s = <<>> THEN 0 ELSE DigitsToNat(rows[1][i].s))
         + ColumnTotal(Tail(rows), i)

WholeColumn(rows, i) == \A r \in 1..Len(rows) : AllDigits(rows[r][i].s)

\* The totals row shows, in every column of whole numbers before the cost,
\* the sum over these rows.
Counts(row, rows) ==
    \A i \in 1..15 :
        WholeColumn(rows, i + 3) => row[i] = NatToDigits(ColumnTotal(rows, i + 3))

\* The rows of the log shown whose name is checked in log_table.
CheckedRows ==
    SelectSeq(logs[date],
              LAMBDA row : \E i \in 1..Len(table) :
                               table[i].checked /\ table[i].name = row[1].s)

\* LogsWin shows a log, whatever the food dictionary holds.
LogShown == win = "logs" /\ date \in DOMAIN logs

\* C20: no step of the food dictionary's handlers (add, edit, remove
\* selected, delete) changes a log file, and whenever LogsWin shows a log
\* its grand totals count every row of the file and its subtotals every
\* checked row, with the values stored in the log, whether the food
\* dictionary still has an entry of that name or not.
C20_LedgersUntouched ==
    /\ [][logs' = logs]_vars
    /\ [](LogShown =>
            /\ Counts(totals.all, logs[date])
            /\ CheckedRows # <<>> => Counts(totals.selected, CheckedRows)
            /\ CheckedRows = <<>> => totals.selected = BlankTotals)

\* The log of two rows shown with both rows checked, the food dictionary
\* now holding an entry "a" that is not the cereal the log's row was added
\* from, and no entry "ab".
C20_Witness ==
    /\ LogShown /\ Len(logs[date]) = 2 /\ Len(CheckedRows) = 2
    /\ fd.exists
    /\ \E i \in 1..Len(fd.rows) :
           fd.rows[i][1].s = NameOf(1) /\ fd.rows[i] # Cereal(NameOf(1))
    /\ ~InList(NameOf(3), NamesOf(fd.rows))
    /\ totals.selected[1] = <<"4", "0", "0">>

-----------------------------------------------------------------------------
(* EditLogWin: adding entries of the food dictionary to the log of a date, *)
(* and editing entries of that log.                                        *)

\* The units of a food dictionary row: the keys of its serving sizes.
UnitsOf(row) == [i \in 1..Len(row[2].x) |-> row[2].x[i][1]]

\* EditLogWin.init_ui, lines 872-952, adding: a row per food dictionary
\* entry, the amount blank and the unit 'Serving(s)'.
AddTable(file) ==
    [i \in 1..Len(file.rows) |->
        [name |-> file.rows[i][1].s, checked |-> FALSE, checkable |-> TRUE,
         amount |-> <<>>, unit |-> "Serving(s)", units |-> UnitsOf(file.rows[i])]]

\* EditTable with the combobox left at its first item, 'Serving(s)'.
EditTableDefaultUnit(file, log, names) ==
    LET old == get_entries(log, NameList(names), TRUE, FALSE).rows
        matches == get_entries(file, NameList(names), TRUE, FALSE).rows
    IN  [i \in 1..Len(names) |->
            [name |-> names[i], checked |-> FALSE, checkable |-> TRUE,
             amount |-> old[i][2].x[1].s,
             unit |-> "Serving(s)",
             units |-> UnitsOf(matches[i])]]

\* ... editing: a row per entry to edit, with the amount and the unit of the
\* log entry (the unit only if the food dictionary entry offers it).
EditTable(file, log, names) ==
    LET old == get_entries(log, NameList(names), TRUE, FALSE).rows
        matches == get_entries(file, NameList(names), TRUE, FALSE).rows
    IN  [i \in 1..Len(names) |->
            [name |-> names[i], checked |-> FALSE, checkable |-> TRUE,
             amount |-> old[i][2].x[1].s,
             unit |-> IF InList(old[i][2].x[2], UnitsOf(matches[i]))
                      THEN old[i][2].x[2] ELSE "Serving(s)",
             units |-> UnitsOf(matches[i])]]

\* data.get_edit_log_amounts: <<amount, unit>> of the rows, or of the
\* checked rows.
get_edit_log_amounts(t, checked) ==
    LET rows == IF checked THEN SelectSeq(t, LAMBDA r : r.checked) ELSE t
    IN  [i \in 1..Len(rows) |-> <<rows[i].amount, rows[i].unit>>]

\* The entries calculate_entry_info is given: the str 'file not found' is
\* no list of entries, and what follows raises.
Calculated(found, amounts, edit) ==
    IF found.kind = "str" THEN [kind |-> "raise", msg |-> "Exception", rows |-> <<>>]
    ELSE calculate_entry_info(found.rows, amounts, FALSE, edit)

\* add_to_log without the test of lines 1095-1101.
AddToLogNoDuplicateTest(log, new_entry_names, calc) ==
    LET written == [i \in 1..Len(calc.rows) |-> CsvRow(calc.rows[i])]
        stop(m) == [msg |-> m, log |-> log, rows |-> <<>>]
    IN  IF new_entry_names = <<>> THEN stop("no log entries selected to add")
        ELSE IF calc.kind # "list" THEN stop(calc.msg)
        ELSE [msg |-> "", log |-> [exists |-> TRUE, rows |-> log.rows \o written],
              rows |-> written]

\* add_to_log opening the file for appending before the amounts are
\* validated.
AddToLogOpenFirst(log, new_entry_names, calc) ==
    LET current == get_file_entry_names(log).rows
        written == [i \in 1..Len(calc.rows) |-> CsvRow(calc.rows[i])]
        stop(m) == [msg |-> m, log |-> log, rows |-> <<>>]
    IN  IF new_entry_names = <<>> THEN stop("no log entries selected to add")
        ELSE IF log.exists /\ \E i \in 1..Len(new_entry_names) :
                                  InList(Str(new_entry_names[i]), current)
          THEN stop("duplicate log entry")
        ELSE IF calc.kind # "list"
          THEN [msg |-> calc.msg, log |-> [exists |-> TRUE, rows |-> log.rows],
                rows |-> <<>>]
        ELSE [msg |-> "", log |-> [exists |-> TRUE, rows |-> log.rows \o written],
              rows |-> written]

\* add_to_log writing the new rows before the rows of the file.
AddToLogPrepend(log, new_entry_names, calc) ==
    LET current == get_file_entry_names(log).rows
        written == [i \in 1..Len(calc.rows) |-> CsvRow(calc.rows[i])]
        stop(m) == [msg |-> m, log |-> log, rows |-> <<>>]
    IN  IF new_entry_names = <<>> THEN stop("no log entries selected to add")
        ELSE IF log.exists /\ \E i \in 1..Len(new_entry_names) :
                                  InList(Str(new_entry_names[i]), current)
          THEN stop("duplicate log entry")
        ELSE IF calc.kind # "list" THEN stop(calc.msg)
        ELSE [msg |-> "", log |-> [exists |-> TRUE, rows |-> written \o log.rows],
              rows |-> written]

\* EditLogWin.add_to_log on the table as the user left it, lines 1089-1122,
\* given what calculate_entry_info returned: the message shown (or the
\* exception raised; "" for neither), the log file after it and the rows
\* written.
AddToLogWith(log, new_entry_names, calc) ==
    LET current == get_file_entry_names(log).rows
        written == [i \in 1..Len(calc.rows) |-> CsvRow(calc.rows[i])]
        stop(m) == [msg |-> m, log |-> log, rows |-> <<>>]
    IN  IF new_entry_names = <<>> THEN stop("no log entries selected to add")
        ELSE IF log.exists /\ \E i \in 1..Len(new_entry_names) :
                                  InList(Str(new_entry_names[i]), current)
          THEN stop("duplicate log entry")
        ELSE IF calc.kind # "list" THEN stop(calc.msg)
        ELSE [msg |-> "", log |-> [exists |-> TRUE, rows |-> log.rows \o written],
              rows |-> written]

add_to_log(file, log, t) ==
    AddToLogWith(log, get_table_entry_names(t)[2],
                 Calculated(get_entries(file, NameList(get_table_entry_names(t)[2]),
                                        TRUE, FALSE),
                            get_edit_log_amounts(t, TRUE), FALSE))

\* update_log appending to all rows of the file.
UpdateLogKeepingAll(log, entries_to_write, calc) ==
    LET written == [i \in 1..Len(calc.rows) |-> CsvRow(calc.rows[i])]
        stop(m) == [msg |-> m, log |-> log, rows |-> <<>>]
    IN  IF calc.kind # "list" THEN stop(calc.msg)
        ELSE IF entries_to_write.kind = "str" THEN stop("AttributeError")
        ELSE [msg |-> "",
              log |-> [exists |-> TRUE, rows |-> log.rows \o written],
              rows |-> written]

\* update_log writing the recomputed rows alone.
UpdateLogDroppingOthers(log, entries_to_write, calc) ==
    LET written == [i \in 1..Len(calc.rows) |-> CsvRow(calc.rows[i])]
        stop(m) == [msg |-> m, log |-> log, rows |-> <<>>]
    IN  IF calc.kind # "list" THEN stop(calc.msg)
        ELSE IF entries_to_write.kind = "str" THEN stop("AttributeError")
        ELSE [msg |-> "", log |-> [exists |-> TRUE, rows |-> written], rows |-> written]

\* update_log writing the recomputed rows first.
UpdateLogRecomputedFirst(log, entries_to_write, calc) ==
    LET written == [i \in 1..Len(calc.rows) |-> CsvRow(calc.rows[i])]
        stop(m) == [msg |-> m, log |-> log, rows |-> <<>>]
    IN  IF calc.kind # "list" THEN stop(calc.msg)
        ELSE IF entries_to_write.kind = "str" THEN stop("AttributeError")
        ELSE [msg |-> "",
              log |-> [exists |-> TRUE, rows |-> written \o entries_to_write.rows],
              rows |-> written]

\* EditLogWin.update_log, likewise (lines 1146-1156).
UpdateLogWith(log, entries_to_write, calc) ==
    LET written == [i \in 1..Len(calc.rows) |-> CsvRow(calc.rows[i])]
        stop(m) == [msg |-> m, log |-> log, rows |-> <<>>]
    IN  IF calc.kind # "list" THEN stop(calc.msg)
        ELSE IF entries_to_write.kind = "str" THEN stop("AttributeError")
        ELSE [msg |-> "",
              log |-> [exists |-> TRUE, rows |-> entries_to_write.rows \o written],
              rows |-> written]

update_log(file, log, t) ==
    UpdateLogWith(log,
                  get_entries(log, NameList(get_table_entry_names(t)[1]), FALSE, FALSE),
                  Calculated(get_entries(file, NameList(get_table_entry_names(t)[1]),
                                         TRUE, FALSE),
                             get_edit_log_amounts(t, FALSE), TRUE))

\* remove_entries writing the unchecked entries whether there are any or
\* not.
RemoveEntriesNoConfirmation(log, names) ==
    IF ~log.exists THEN [msg |-> "log file not found", dialog |-> FALSE, log |-> log]
    ELSE IF names[2] = <<>>
      THEN [msg |-> "no selected entries to remove", dialog |-> FALSE, log |-> log]
    ELSE [msg |-> "", dialog |-> FALSE,
          log |-> [exists |-> TRUE,
                   rows |-> get_entries(log, NameList(names[3]), TRUE, FALSE).rows]]

\* LogsWin.remove_entries, lines 583-601, on the names of log_table: the
\* message shown, whether confirm_delete_log is called, and the log file
\* after it.
remove_entries(log, names) ==
    IF ~log.exists THEN [msg |-> "log file not found", dialog |-> FALSE, log |-> log]
    ELSE IF names[2] = <<>>
      THEN [msg |-> "no selected entries to remove", dialog |-> FALSE, log |-> log]
    ELSE IF names[3] = <<>> THEN [msg |-> "", dialog |-> TRUE, log |-> log]
    ELSE [msg |-> "", dialog |-> FALSE,
          log |-> [exists |-> TRUE,
                   rows |-> get_entries(log, NameList(names[3]), TRUE, FALSE).rows]]

-----------------------------------------------------------------------------
(* SpecLog: the user at the log of one date, the food dictionary being     *)
(* three entries: cereal, peanut butter and one of serving size 0 g.       *)

MaxLedger == 4       \* rows of a log file
MaxFilled == 2       \* rows of edit_table the user fills in before a click

Catalog ==
    [exists |-> TRUE,
     rows |-> <<Cereal(NameOf(1)), PeanutButter(NameOf(3)), ZeroSize(NameOf(2))>>]

\* What the user enters in a row of edit_table: <<amount, unit>>.
Fills == { <<T2, "Serving(s)">>, <<T2, "g">>, <<<<>>, "Serving(s)">>, <<<<".">>, "g">> }

\* The combobox of the row offers the unit.
Offered(row, unit) == unit = "Serving(s)" \/ InList(unit, row.units)

\* The table with some rows checked and filled in (adding), or with some
\* rows changed (editing); <<>> stands for a row left as it is.
Filled(t, check) ==
    { [i \in 1..Len(t) |->
          IF c[i] = <<>> THEN t[i]
          ELSE [t[i] EXCEPT !.checked = check, !.amount = c[i][1], !.unit = c[i][2]]] :
        c \in { f \in [1..Len(t) -> Fills \cup {<<>>}] :
                  /\ Cardinality({i \in 1..Len(t) : f[i] # <<>>}) <= MaxFilled
                  /\ \A i \in 1..Len(t) : f[i] # <<>> => Offered(t[i], f[i][2]) } }

InitLog ==
    /\ pc = "idle" /\ fn = "none" /\ args = <<>> /\ ret = NoRet /\ after = <<>>
    /\ fd = Catalog /\ win = "logs" /\ table = LogTable(NoFile) /\ dlg = NoDlg
    /\ editName = <<>> /\ msg = "" /\ last = NoLast
    /\ logs = NoLogs /\ date = Today
    /\ totals = [all |-> BlankTotals, selected |-> BlankTotals]

\* A MessageWin is shown by a handler of LogsWin or EditLogWin.
LogMessage(key) == ShowMessage(key) /\ UNCHANGED logVars

\* EditLogWin(date, log_file_path, geo, names, edit) is shown and LogsWin
\* closed; win is "editlog" when edit, "addlog" when not.
EditLogWinShown(names, edit) ==
    /\ win' = IF edit THEN "editlog" ELSE "addlog"
    /\ table' = IF edit THEN EditTable(fd, LogFile(logs, date), names) ELSE AddTable(fd)
    /\ dlg' = NoDlg /\ totals' = NoTotals
    /\ UNCHANGED <<fd, editName, logs, date>>

ShowEditLogWin(names, edit) ==
    EditLogWinShown(names, edit) /\ msg' = "" /\ last' = NoLast

\* LogsWin.add_entries
AddEntries ==
    /\ win = "logs"
    /\ IF ~fd.exists THEN LogMessage("fd file not found (log window)")
       ELSE ShowEditLogWin(<<>>, FALSE)
    /\ UNCHANGED harnessVars

\* edit_entries testing the first selected name only.
EditEntriesFirstNameOnly(file, checked) ==
    IF checked = <<>> THEN "no log entries selected to edit"
    ELSE IF ~file.exists THEN "fd file not found (log window edit)"
    ELSE IF ~InList(Str(checked[1]), get_file_entry_names(file).rows)
      THEN "fd entry no longer exists"
    ELSE ""

\* LogsWin.edit_entries, lines 714-730, on the checked names of log_table:
\* the message shown, "" when EditLogWin is to be opened.
edit_entries(file, checked) ==
    IF checked = <<>> THEN "no log entries selected to edit"
    ELSE IF ~file.exists THEN "fd file not found (log window edit)"
    ELSE IF \E i \in 1..Len(checked) :
              ~InList(Str(checked[i]), get_file_entry_names(file).rows)
      THEN "fd entry no longer exists"
    ELSE ""

\* LogsWin.edit_entries; EditLogWin.init_ui raises IndexError at
\* self.serv_options[i] when an entry to edit has no row in the food
\* dictionary, and LogsWin stays.
EditEntries ==
    /\ win = "logs"
    /\ \E checked \in {get_table_entry_names(table)[2]} :
       \E key \in {edit_entries(fd, checked)} :
           /\ last' = [op |-> "edit_entries", checked |-> checked]
           /\ IF key # ""
              THEN /\ msg' = key
                   /\ UNCHANGED <<fd, win, table, dlg, editName>> /\ UNCHANGED logVars
              ELSE IF Len(get_entries(fd, NameList(checked), TRUE, FALSE).rows) < Len(checked)
                THEN /\ msg' = "IndexError"
                     /\ UNCHANGED <<fd, win, table, dlg, editName>> /\ UNCHANGED logVars
              ELSE EditLogWinShown(checked, TRUE) /\ msg' = ""
    /\ UNCHANGED harnessVars

\* EditLogWin.back_to_log_win
BackToLogWin ==
    /\ win \in {"addlog", "editlog"}
    /\ ShowLogsWin(logs, date)
    /\ msg' = "" /\ last' = NoLast
    /\ UNCHANGED <<fd, logs>> /\ UNCHANGED harnessVars

\* What add_to_log or update_log leaves: the log file as the handler left
\* it, and the message with the window unchanged, or LogsWin(self.date)
\* shown.
LogWritten(op, t, r) ==
    /\ Len(r.log.rows) <= MaxLedger
    /\ msg' = r.msg
    /\ last' = [op |-> op, before |-> LogFile(logs, date), table |-> t, rows |-> r.rows]
    /\ logs' = IF r.log.exists THEN WriteLog(logs, date, r.log.rows) ELSE logs
    /\ IF r.msg = "" THEN ShowLogsWin(WriteLog(logs, date, r.log.rows), date)
       ELSE UNCHANGED <<win, table, dlg, editName, date, totals>>
    /\ UNCHANGED fd

\* EditLogWin.add_to_log on "Add to log", the user having checked and
\* filled in rows
AddToLog ==
    /\ win = "addlog"
    /\ \E t \in Filled(table, TRUE) :
       \E r \in {add_to_log(fd, LogFile(logs, date), t)} : LogWritten("add", t, r)
    /\ UNCHANGED harnessVars

\* EditLogWin.update_log on "Update log", the user having changed rows
UpdateLog ==
    /\ win = "editlog"
    /\ \E t \in Filled(table, FALSE) :
       \E r \in {update_log(fd, LogFile(logs, date), t)} : LogWritten("update", t, r)
    /\ UNCHANGED harnessVars

\* self.dlg = QDialog(self); self.dlg.show() in LogsWin
LogOpenDialog(kind) == OpenDialog(kind) /\ UNCHANGED logVars

\* LogsWin.help_info
HelpInfo ==
    /\ win = "logs"
    /\ LogOpenDialog("help")
    /\ UNCHANGED harnessVars

\* LogsWin.confirm_delete_log
ConfirmDeleteLog ==
    /\ win = "logs"
    /\ IF date \notin DOMAIN logs THEN LogMessage("log file not found")
       ELSE LogOpenDialog("delete")
    /\ UNCHANGED harnessVars

\* LogsWin.close_win, on "Ok" or "Nevermind" of any open dialog
LogCloseWin ==
    /\ win = "logs" /\ dlg.open # <<>>
    /\ dlg' = IF dlg.cur THEN [open |-> SubSeq(dlg.open, 1, Len(dlg.open) - 1), cur |-> FALSE]
              ELSE dlg
    /\ msg' = "" /\ last' = NoLast
    /\ UNCHANGED <<fd, win, table, editName>> /\ UNCHANGED logVars
    /\ UNCHANGED harnessVars

\* LogsWin.remove_entries
RemoveEntries ==
    /\ win = "logs"
    /\ \E names \in {get_table_entry_names(table)} :
       \E r \in {remove_entries(LogFile(logs, date), names)} :
           IF r.msg # "" THEN LogMessage(r.msg)
           ELSE IF r.dialog THEN LogOpenDialog("delete")
           ELSE /\ logs' = WriteLog(logs, date, r.log.rows)
                /\ ShowLogsWin(WriteLog(logs, date, r.log.rows), date)
                /\ msg' = ""
                /\ last' = [op |-> "log_remove", before |-> LogFile(logs, date),
                            checked |-> names[2], unchecked |-> names[3]]
                /\ UNCHANGED fd
    /\ UNCHANGED harnessVars

\* LogsWin.delete_log, on "Yes" of an open dialog of confirm_delete_log
DeleteLog ==
    /\ win = "logs" /\ \E i \in 1..Len(dlg.open) : dlg.open[i] = "delete"
    /\ IF date \notin DOMAIN logs THEN LogMessage("FileNotFoundError")
       ELSE /\ logs' = RemoveLog(logs, date)
            /\ ShowLogsWin(RemoveLog(logs, date), date)
            /\ msg' = ""
            /\ last' = [op |-> "log_delete", before |-> LogFile(logs, date)]
            /\ UNCHANGED fd
    /\ UNCHANGED harnessVars

NextLog ==
    \/ AddEntries \/ EditEntries \/ BackToLogWin \/ AddToLog \/ UpdateLog
    \/ LogToggleCheck \/ LogSelectAll \/ LogUnselectAll
    \/ HelpInfo \/ ConfirmDeleteLog \/ LogCloseWin
    \/ RemoveEntries \/ DeleteLog

SpecLog == InitLog /\ [][NextLog]_vars

-----------------------------------------------------------------------------
(* Claims about the log of a date, under SpecLog.                          *)

\* The log file of the date shown, and its rows (none when there is no
\* file).
Ledger == LogFile(logs, date)
RowsOf(file) == IF file.exists THEN file.rows ELSE <<>>

\* The last handler was add_to_log, update_log; and it wrote the file.
AddRequested == last.op = "add"
EditRequested == last.op = "update"
Added == AddRequested /\ msg = ""
Updated == EditRequested /\ msg = ""

\* The rows of edit_table the request is for: the checked rows of an add,
\* all rows of an edit.
Requested ==
    IF AddRequested THEN SelectSeq(last.table, LAMBDA r : r.checked) ELSE last.table
RequestedNames == [i \in 1..Len(Requested) |-> Requested[i].name]

\* C11: in every reachable state no two rows of the log of a date have the
\* same name.
C11_LedgerNamesUnique == \A d \in DOMAIN logs : Distinct(NamesOf(logs[d]))

\* An edit of some rows of a log of three rows has written the file.
C11_Witness ==
    /\ Updated
    /\ Len(last.before.rows) = 3 /\ Len(last.table) < 3
    /\ Len(RowsOf(Ledger)) = 3

\* The add selects a name that the log of the date has.
AddsDuplicate ==
    /\ AddRequested /\ last.before.exists
    /\ \E i \in 1..Len(RequestedNames) :
           InList(RequestedNames[i], NamesOf(last.before.rows))

\* C12: an add that selects a name the log already has shows 'duplicate log
\* entry' and leaves the log file as it was; no selected row is written.
C12_DuplicateAddRejected ==
    AddsDuplicate => (msg = "duplicate log entry" /\ Ledger = last.before /\ last.rows = <<>>)

\* A rejected add of two names, one in the log and one not, both with an
\* amount that is in order.
C12_Witness ==
    /\ AddsDuplicate /\ Len(Requested) = 2
    /\ \E i \in 1..2 : ~InList(RequestedNames[i], NamesOf(last.before.rows))
    /\ \A i \in 1..2 : float_(Requested[i].amount).ok

\* The amount is blank or no number.
BadAmount(a) == a = <<>> \/ ~float_(a).ok

\* An add or an edit of several rows, one of them with such an amount.
BadRequest ==
    /\ AddRequested \/ EditRequested
    /\ Len(Requested) >= 2
    /\ \E i \in 1..Len(Requested) : BadAmount(Requested[i].amount)

\* C13: an add or an edit of several rows, one of which has a blank or
\* non-numeric amount, leaves the log file as it was: nothing is written,
\* nothing removed, and no file is created.
C13_ValidateThenCommit ==
    BadRequest => (msg # "" /\ Ledger = last.before /\ last.rows = <<>>)

\* An add of two rows to a date without a log, the first amount in order and
\* the second not ...
C13_WitnessAdd ==
    /\ BadRequest /\ AddRequested /\ ~last.before.exists
    /\ ~BadAmount(Requested[1].amount) /\ BadAmount(Requested[2].amount)

\* ... or an edit of two rows of a log of three, the second amount blank.
C13_Witness ==
    /\ BadRequest /\ EditRequested
    /\ Len(last.before.rows) = 3 /\ Len(Requested) = 2
    /\ ~BadAmount(Requested[1].amount) /\ Requested[2].amount = <<>>

\* C14: an add that succeeds leaves a log file which holds the rows it held
\* before, unchanged and in their order, followed by one new row for every
\* selected name, in the order of the selection; the file exists whether it
\* did before or not.
C14_AddAppends ==
    Added =>
        LET old == RowsOf(last.before)
            now == RowsOf(Ledger)
        IN  /\ Ledger.exists
            /\ Len(now) = Len(old) + Len(Requested)
            /\ SubSeq(now, 1, Len(old)) = old
            /\ SubSeq(now, Len(old) + 1, Len(now)) = last.rows
            /\ NamesOf(last.rows) = RequestedNames
            /\ \A i \in 1..Len(Requested) :
                   last.rows[i][2] = ListText(<<Str(Requested[i].amount),
                                                Requested[i].unit>>)

\* Two rows added to a log of one row.
C14_Witness ==
    /\ Added /\ last.before.exists
    /\ Len(last.before.rows) = 1 /\ Len(Requested) = 2

\* One row added to a date without a log.
C14_WitnessNewFile == Added /\ ~last.before.exists /\ Len(RowsOf(Ledger)) = 1

\* C15: an edit that succeeds rewrites the log file as the rows whose name
\* is not among the edited names, unchanged and in the order of the file,
\* followed by one recomputed row for every edited name.
C15_EditRewrites ==
    Updated =>
        LET kept == SelectSeq(last.before.rows,
                              LAMBDA row : ~InList(row[1].s, RequestedNames))
        IN  /\ Ledger.exists
            /\ Ledger.rows = kept \o last.rows
            /\ NamesOf(last.rows) = RequestedNames
            /\ \A i \in 1..Len(Requested) :
                   last.rows[i][2] = ListText(<<Str(Requested[i].amount),
                                                Requested[i].unit>>)

\* The first row of a log of three edited: it changes and is now the last.
C15_Witness ==
    /\ Updated /\ Len(last.before.rows) = 3
    /\ RequestedNames = <<last.before.rows[1][1].s>>
    /\ last.rows[1] # last.before.rows[1]

\* The last handler was remove_entries and it wrote the file; delete_log.
Removed == last.op = "log_remove"
Deleted == last.op = "log_delete"

\* C17: remove_entries leaves the rows whose name is not selected, in the
\* order of the file; with every row selected it writes nothing, and the
\* file is deleted on "Yes" of the confirmation; a log file that exists
\* holds one row at least.
C17_LedgerRemove ==
    /\ Removed =>
           /\ Ledger.exists
           /\ Ledger.rows = SelectSeq(last.before.rows,
                                      LAMBDA row : ~InList(row[1].s, last.checked))
    /\ Deleted => ~Ledger.exists
    /\ \A d \in DOMAIN logs : Len(logs[d]) >= 1

\* The second row of a log of three removed.
C17_Witness ==
    /\ Removed /\ Len(last.before.rows) = 3
    /\ last.checked = <<last.before.rows[2][1].s>>

\* A log of two rows deleted.
C17_WitnessDeleted == Deleted /\ Len(last.before.rows) = 2

-----------------------------------------------------------------------------
(* SpecDate: the user moving between the dates of LogsWin, there being      *)
(* log files for some dates.                                               *)

MaxLogs == 2         \* log files

\* The dates that have a log file are among these.
LogYears == {999, 2020}
LogMonths == {6, 7}
LogDays == {2, 30}
LogDates == { [y |-> y, m |-> m, d |-> d] : y \in LogYears, m \in LogMonths, d \in LogDays }

\* What the user enters in the day and year fields (digits only, by their
\* QIntValidator).
DayTexts == { <<>>, <<"2">>, <<"3", "0">>, <<"3", "1">>, <<"3", "2">> }
YearTexts == { <<>>, <<"2", "0", "2", "0">>, <<"0", "9", "9", "9">>, <<"2", "0">> }

\* The path separator of the platform.
Seps == { "\\", "/" }

\* datetime.date(year, month, day) raises ValueError or not.
LeapYear(y) == (y % 4 = 0 /\ y % 100 # 0) \/ y % 400 = 0
DaysInMonth(y, m) ==
    IF m = 2 THEN (IF LeapYear(y) THEN 29 ELSE 28)
    ELSE IF m \in {4, 6, 9, 11} THEN 30 ELSE 31
DateExists(y, m, d) == y \in 1..9999 /\ m \in 1..12 /\ d \in 1..DaysInMonth(y, m)

\* strftime('%d'), strftime('%m'): two digits
TwoDigits(n) == <<Digits[(n \div 10) + 1], Digits[(n % 10) + 1]>>

\* strftime('%B') of the months of LogMonths
MonthName(m) == IF m = 6 THEN <<"J", "u", "n", "e">> ELSE <<"J", "u", "l", "y">>

\* LogsWin.__init__, lines 71-81: log_file_path below LOG_FILES_DIR, the year
\* being str(self.date.year).
LogFilePath(d, sep) ==
    NatToDigits(d.y) \o <<sep>>
    \o TwoDigits(d.m) \o <<" ", "-", " ">> \o MonthName(d.m) \o <<sep>>
    \o TwoDigits(d.d) \o <<".", "c", "s", "v">>

\* LogsWin.change_date on the index of the month and the texts of the day
\* and year fields: the message shown ("" for none) and the date of the
\* LogsWin opened.
change_date(month, day, year, current) ==
    IF day = <<>> \/ year = <<>> THEN [msg |-> "blank date", date |-> current]
    ELSE IF DigitsToNat(day) \notin 1..31 THEN [msg |-> "invalid day", date |-> current]
    ELSE IF Len(year) # 4 THEN [msg |-> "invalid year", date |-> current]
    ELSE IF ~DateExists(DigitsToNat(year), month, DigitsToNat(day))
      THEN [msg |-> "date does not exist", date |-> current]
    ELSE [msg |-> "", date |-> [y |-> DigitsToNat(year), m |-> month, d |-> DigitsToNat(day)]]

\* (year, month, day) of one date before that of the other
DateLess(a, b) ==
    \/ a.y < b.y
    \/ a.y = b.y /\ a.m < b.m
    \/ a.y = b.y /\ a.m = b.m /\ a.d < b.d

\* The orders in which os.walk can yield the files: any order that keeps
\* the files of a directory together.
Listings(files, sep) ==
    LET n == Cardinality(DOMAIN files)
        together(q) ==
            \A i, j, k \in 1..n :
                (i < j /\ j < k) =>
                    /\ q[i].y = q[k].y => q[j].y = q[i].y
                    /\ (q[i].y = q[k].y /\ q[i].m = q[k].m) => q[j].m = q[i].m
    IN  { [i \in 1..n |-> LogFilePath(q[i], sep)] :
            q \in { f \in [1..n -> DOMAIN files] :
                      /\ \A i, j \in 1..n : i # j => f[i] # f[j]
                      /\ together(f) } }

\* bisect.insort(a, x): bisect_right between lo and hi (from 1, hi excluded),
\* then insert.
RECURSIVE BisectRight(_, _, _, _)
BisectRight(a, x, lo, hi) ==
    IF lo >= hi THEN lo
    ELSE LET mid == (lo + hi) \div 2
         IN  IF TextLess(x, a[mid]) THEN BisectRight(a, x, lo, mid)
             ELSE BisectRight(a, x, mid + 1, hi)

InsertAt(a, x, at) == SubSeq(a, 1, at - 1) \o <<x>> \o SubSeq(a, at, Len(a))

insort(a, x) == InsertAt(a, x, BisectRight(a, x, 1, Len(a) + 1))

\* a.index(x), from 1
IndexOf(a, x) == CHOOSE i \in 1..Len(a) : a[i] = x /\ \A j \in 1..(i - 1) : a[j] # x

\* path.split('\\')
RECURSIVE SplitOn(_, _, _)
SplitOn(text, sep, piece) ==
    IF text = <<>> THEN <<piece>>
    ELSE IF text[1] = sep THEN <<piece>> \o SplitOn(Tail(text), sep, <<>>)
    ELSE SplitOn(Tail(text), sep, Append(piece, text[1]))

\* int(text)
IntOf(text) == IF text # <<>> /\ AllDigits(text) THEN DigitsToNat(text) ELSE -1

\* Lines 526-532 and 562-568: the date read from the path, or the exception
\* raised.
DateOfPath(path, current) ==
    LET info == SplitOn(path, "\\", <<>>)
        n == Len(info)
    IN  IF n < 3 THEN [msg |-> "IndexError", date |-> current]
        ELSE IF \/ IntOf(info[n - 2]) < 0
                \/ IntOf(SubSeq(info[n - 1], 1, 2)) < 0
                \/ IntOf(SubSeq(info[n], 1, 2)) < 0
                \/ ~DateExists(IntOf(info[n - 2]), IntOf(SubSeq(info[n - 1], 1, 2)),
                               IntOf(SubSeq(info[n], 1, 2)))
          THEN [msg |-> "ValueError", date |-> current]
        ELSE [msg |-> "",
              date |-> [y |-> IntOf(info[n - 2]), m |-> IntOf(SubSeq(info[n - 1], 1, 2)),
                        d |-> IntOf(SubSeq(info[n], 1, 2))]]

\* Lines 512-515 and 547-556: the path names with log_file_path among them.
AllPathnames(walk, log_file_path) ==
    IF \E i \in 1..Len(walk) : walk[i] = log_file_path THEN walk
    ELSE insort(walk, log_file_path)

\* LogsWin.goto_prev_log, given the path names
PrevIn(all_pathnames, log_file_path, current) ==
    IF IndexOf(all_pathnames, log_file_path) = 1
    THEN [msg |-> "no previous file", date |-> current]
    ELSE DateOfPath(all_pathnames[IndexOf(all_pathnames, log_file_path) - 1], current)

goto_prev_log(walk, log_file_path, current) ==
    PrevIn(AllPathnames(walk, log_file_path), log_file_path, current)

\* LogsWin.goto_next_log, given the path names
NextIn(all_pathnames, log_file_path, current) ==
    IF IndexOf(all_pathnames, log_file_path) = Len(all_pathnames)
    THEN [msg |-> "no next file", date |-> current]
    ELSE DateOfPath(all_pathnames[IndexOf(all_pathnames, log_file_path) + 1], current)

goto_next_log(walk, log_file_path, current) ==
    NextIn(AllPathnames(walk, log_file_path), log_file_path, current)

\* The log of a date that has one: one row.
OneRowLog == SubSeq(LoggedRows, 1, 1)

InitDate ==
    /\ pc = "idle" /\ fn = "none" /\ args = <<>> /\ ret = NoRet /\ after = <<>>
    /\ fd = NoFile /\ win = "logs" /\ dlg = NoDlg
    /\ editName = <<>> /\ msg = "" /\ last = NoLast
    /\ \E S \in SUBSET LogDates :
           /\ Cardinality(S) <= MaxLogs
           /\ logs = [d \in S |-> OneRowLog]
    /\ date = Today
    /\ table = LogTable(LogFile(logs, date))
    /\ totals = [all |-> IF date \in DOMAIN logs THEN TotalsRow(logs[date])
                         ELSE BlankTotals,
                 selected |-> BlankTotals]

\* What a handler that changes the date leaves: the message (or the
\* exception raised) and the window unchanged, or LogsWin(new_date) shown.
DateChanged(r) ==
    /\ msg' = r.msg
    /\ IF r.msg = "" THEN ShowLogsWin(logs, r.date)
       ELSE UNCHANGED <<win, table, dlg, editName, date, totals>>
    /\ UNCHANGED <<fd, logs>>

\* LogsWin.change_date on "Change log"
ChangeDate ==
    /\ win = "logs"
    /\ \E month \in LogMonths, day \in DayTexts, year \in YearTexts :
           /\ DateChanged(change_date(month, day, year, date))
           /\ last' = [op |-> "change"]
    /\ UNCHANGED harnessVars

\* LogsWin.goto_prev_log on "Previous log"
GotoPrevLog ==
    /\ win = "logs"
    /\ \E sep \in Seps : \E walk \in Listings(logs, sep) :
           /\ DateChanged(goto_prev_log(walk, LogFilePath(date, sep), date))
           /\ last' = [op |-> "prev", from |-> date, sep |-> sep, walk |-> walk]
    /\ UNCHANGED harnessVars

\* LogsWin.goto_next_log on "Next log"
GotoNextLog ==
    /\ win = "logs"
    /\ \E sep \in Seps : \E walk \in Listings(logs, sep) :
           /\ DateChanged(goto_next_log(walk, LogFilePath(date, sep), date))
           /\ last' = [op |-> "next", from |-> date, sep |-> sep, walk |-> walk]
    /\ UNCHANGED harnessVars

NextDate == ChangeDate \/ GotoPrevLog \/ GotoNextLog

SpecDate == InitDate /\ [][NextDate]_vars

-----------------------------------------------------------------------------
(* Claims about the dates, under SpecDate.                                 *)

\* The dates with a log file after, before a date.
LogsAfter(d) == {e \in DOMAIN logs : DateLess(d, e)}
LogsBefore(d) == {e \in DOMAIN logs : DateLess(e, d)}
Earliest(S) == CHOOSE e \in S : \A f \in S : e = f \/ DateLess(e, f)
Latest(S) == CHOOSE e \in S : \A f \in S : e = f \/ DateLess(f, e)

\* C18 (as claimed): "Next log" shows the earliest date after the date
\* shown that has a log file, and "Previous log" the latest such date
\* before it, whether the date shown has a log file or not; when there is
\* no such date the message is 'no next file' / 'no previous file' and the
\* date shown stays; nothing is raised.
C18_AdjacentLog ==
    /\ last.op = "next" =>
           IF LogsAfter(last.from) = {} THEN msg = "no next file" /\ date = last.from
           ELSE msg = "" /\ date = Earliest(LogsAfter(last.from))
    /\ last.op = "prev" =>
           IF LogsBefore(last.from) = {} THEN msg = "no previous file" /\ date = last.from
           ELSE msg = "" /\ date = Latest(LogsBefore(last.from))

\* change_date accepts the date: some input of the fields leads to it.
Accepted(d) ==
    \E day \in DayTexts, year \in YearTexts :
        change_date(d.m, day, year, Today) = [msg |-> "", date |-> d]

\* C19 (as claimed): for two dates that change_date accepts, the paths of
\* their log files compare as str as the dates compare as (year, month,
\* day).
C19_PathOrder ==
    \A d, e \in DOMAIN logs \cup {date} : \A sep \in Seps :
        (Accepted(d) /\ Accepted(e)) =>
            (TextLess(LogFilePath(d, sep), LogFilePath(e, sep)) <=> DateLess(d, e))

-----------------------------------------------------------------------------
(* SpecOrphan: the food dictionary's windows and, from LogsWin, the edit of *)
(* entries of a log whose food dictionary entries come and go.             *)

NextOrphan == NextFD \/ EditEntries \/ BackToLogWin

SpecOrphan == InitFD /\ [][NextOrphan]_vars

\* The last handler was edit_entries, with entries selected.
EditAsked == last.op = "edit_entries" /\ last.checked # <<>>

\* Every selected name is the name of an entry of the food dictionary.
AllInCatalog(names) ==
    fd.exists /\ \A i \in 1..Len(names) : InList(names[i], NamesOf(fd.rows))

\* C21: edit_entries with entries selected is refused with a message, the
\* log and the window as they were, whenever the food dictionary is absent
\* or lacks one of the selected names; and whenever the food dictionary
\* holds every selected name (again), EditLogWin opens on these names.
C21_OrphanNotEditable ==
    EditAsked =>
        IF AllInCatalog(last.checked)
        THEN msg = "" /\ win = "editlog" /\ NamesOf(logs[date]) # <<>>
             /\ [i \in 1..Len(table) |-> table[i].name] = last.checked
        ELSE /\ msg = IF fd.exists THEN "fd entry no longer exists"
                      ELSE "fd file not found (log window edit)"
             /\ win = "logs" /\ date \in DOMAIN logs
             /\ get_table_entry_names(table)[2] = last.checked

\* Both rows of the log selected, the food dictionary holding "a" and not
\* "ab": refused.
C21_Witness ==
    /\ EditAsked /\ Len(last.checked) = 2
    /\ fd.exists /\ InList(NameOf(1), NamesOf(fd.rows))
    /\ msg = "fd entry no longer exists"

\* The row "a" selected and the food dictionary, absent at first, holding
\* "a" again: accepted.
C21_WitnessAccepted == EditAsked /\ win = "editlog" /\ last.checked = <<NameOf(1)>>

-----------------------------------------------------------------------------
(* The order of the food dictionary file.                                  *)

\* The rows of the file are in ascending order of their names, as str.
SortedByName(rows) ==
    \A i \in 1..Len(rows) : \A j \in 1..Len(rows) :
        i < j => ~TextLess(rows[j][1].s, rows[i][1].s)

\* C22: after every upsert that succeeds the rows of the catalog are in
\* ascending order of name; remove_entries_from_fd keeps the rows it keeps
\* in the order of the file before; so in every reachable state of the food
\* dictionary's handlers the file is sorted by name.
C22_CatalogSorted ==
    /\ SortedByName(fd.rows)
    /\ (Upserted /\ msg = "") => (fd.exists /\ last.entry \in RowSet(fd))
    /\ (last.op = "remove" /\ msg = "") =>
           fd.rows = SelectSeq(last.before.rows,
                               LAMBDA r : InList(r[1].s, last.names))

\* An upsert wrote its entry before two rows that were in the file.
C22_Witness ==
    /\ Upserted /\ msg = "" /\ last.prev = <<>>
    /\ Len(fd.rows) = 3 /\ fd.rows[1] = last.entry

\* The middle row of three removed.
C22_WitnessRemoved ==
    /\ last.op = "remove" /\ msg = ""
    /\ Len(last.before.rows) = 3 /\ Len(fd.rows) = 2
    /\ fd.rows = <<last.before.rows[1], last.before.rows[3]>>

-----------------------------------------------------------------------------
(* The values of the rows add_to_log and update_log write.                 *)

\* The row of the food dictionary that bears the name.
CatalogEntry(name) ==
    fd.rows[CHOOSE i \in 1..Len(fd.rows) : fd.rows[i][1].s = name]

\* The log row's slots hold, as csv text, the catalog row's values times m.
WrittenScaledBy(cat, row, m) ==
    \A j \in Slots :
        row[OutSlot(j)] = IF cat[j].s = <<>> THEN Blank
                          ELSE CsvField(Scaled(cat[j].s, m))

\* The number the row's num_servings field holds.
StoredServings(row) == Rat(float_(row[3].s).n, float_(row[3].s).d)

\* C23: in every row add_to_log or update_log writes, each present slot of
\* the 15 nutrients and the cost is round(catalog_value * m, 2), where m is
\* the number of servings computed from the amount and the unit the row
\* records (the amount, or the amount over the serving size of the unit),
\* before it is rounded for the num_servings field; a blank slot is blank.
C23_WrittenRowsScaled ==
    (Added \/ Updated) =>
        /\ Len(last.rows) = Len(Requested)
        /\ \A i \in 1..Len(Requested) :
               LET cat == CatalogEntry(Requested[i].name)
               IN  /\ last.rows[i] \in RowSet(Ledger)
                   /\ WrittenScaledBy(cat, last.rows[i],
                                      Multiplier(cat, <<Requested[i].amount, Requested[i].unit>>))

\* 2 g of the cereal, whose serving is 60 g, written: 0.03 servings stored
\* for 1/30.
C23_Witness ==
    /\ Added \/ Updated
    /\ \E i \in 1..Len(Requested) :
           /\ Requested[i].name = NameOf(1)
           /\ Requested[i].amount = T2 /\ Requested[i].unit = "g"
           /\ last.rows[i][3] = Str(<<"0", ".", "0", "3">>)
           /\ last.rows[i][4] = Str(<<"6", ".", "6", "7">>)

\* C23 (as claimed): each present slot of a written row is
\* round(catalog_value * num_servings, 2) for the num_servings value stored
\* in that row.
C23_ScaledByStoredServings ==
    (Added \/ Updated) =>
        \A i \in 1..Len(Requested) :
            WrittenScaledBy(CatalogEntry(Requested[i].name), last.rows[i],
                            StoredServings(last.rows[i]))

-----------------------------------------------------------------------------
(* The cost fields of the rows add_or_edit_entry writes.                   *)

\* Exactly one of the form's two cost inputs is filled in.
OneCostGiven(form) == (form.total_cost = <<>>) # (form.serv_per_container = <<>>)

\* A test that add_or_edit_entry makes before it reads the cost inputs
\* fails: the name, the serving sizes, the nutrients.
EarlierTestFails ==
    \/ last.form.name = <<>>
    \/ NameTaken
    \/ ~ServSizeOptions(last.form.slots, <<>>).ok
    \/ ServSizeOptions(last.form.slots, <<>>).opts = <<>>
    \/ \E i \in 1..15 : last.form.nutrients[i] # <<>> /\ ~float_(last.form.nutrients[i]).ok

\* str(round(total / per, 3)) of the two inputs.
UnitCostText(total_cost, serv_per_container) ==
    LET t == float_(total_cost)
        s == float_(serv_per_container)
    IN  StrOfFloat3(RoundHalfEven(1000 * t.n * s.d, t.d * s.n))

C25_WitnessMissing ==
    /\ Upserted /\ last.prev # <<>> /\ msg = "missing cost info"
    /\ last.form.total_cost = <<>> /\ last.form.serv_per_container # <<>>
    /\ Len(fd.rows) >= 1

-----------------------------------------------------------------------------
(* The subtotals of LogsWin (under SpecLog).                               *)

\* A number of at most two decimals, in hundredths; blank counts as 0.
Hundredths(text) ==
    IF text = <<>> THEN 0 ELSE (100 * float_(text).n) \div float_(text).d

TwoDecimals(text) ==
    text = <<>> \/ (float_(text).ok /\ (100 * float_(text).n) % float_(text).d = 0)

\* The sum of field i over the rows, in hundredths.
RECURSIVE FieldSum(_, _)
FieldSum(rows, i) ==
    IF rows = <<>> THEN 0
    ELSE Hundredths(rows[1][i].s) + FieldSum(Tail(rows), i)

\* The totals row holds, field by field, the sum over the rows.
SumsOf(row, rows) ==
    \A i \in 1..16 :
        /\ row[i] # <<>> /\ TwoDecimals(row[i])
        /\ \A r \in 1..Len(rows) : TwoDecimals(rows[r][i + 3].s)
        /\ Hundredths(row[i]) = FieldSum(rows, i + 3)

AllChecked == \A i \in 1..Len(table) : table[i].checked

\* C26: whenever LogsWin shows a log, after any checks, unchecks, 'Select
\* all' and 'Unselect all', the row 'Selected entries' holds field by field
\* the sum over exactly the checked rows of the file, and is blank when no
\* row is checked; with every row checked it equals the row 'All entries',
\* which holds the sum over all rows.
C26_SelectedTotals ==
    LogShown =>
        /\ SumsOf(totals.all, logs[date])
        /\ CheckedRows = <<>> => totals.selected = BlankTotals
        /\ CheckedRows # <<>> => SumsOf(totals.selected, CheckedRows)
        /\ AllChecked => totals.selected = totals.all

\* Two rows of three checked, 2 g of cereal (6.67 calories) and the peanut
\* butter, whose values are blank; the row left out holds 4 calories, so the
\* subtotal differs from the grand total.
C26_Witness ==
    /\ LogShown /\ Len(logs[date]) = 3 /\ Len(CheckedRows) = 2
    /\ \E r \in 1..2 : CheckedRows[r][4].s = <<"6", ".", "6", "7">>
    /\ \E r \in 1..2 : CheckedRows[r][4] = Blank
    /\ totals.selected[1] = <<"6", ".", "6", "7">>
    /\ totals.all[1] = <<"1", "0", ".", "6", "7">>

\* Every row of three checked.
C26_WitnessAll == LogShown /\ Len(logs[date]) = 3 /\ AllChecked /\ totals.all[1] # <<"0">>

-----------------------------------------------------------------------------
(* The serving sizes add_or_edit_entry stores, and their use as divisors.  *)

\* The serving sizes of a row of the food dictionary: <<unit, amount>>.
SizesOf(row) == row[2].x

\* C28 (as claimed): every serving size amount an upsert stores is a number
\* other than zero, so that calculate_entry_info, given the stored entry and
\* an amount in any unit the entry offers, divides and returns a row, in
\* strict and in tally mode.
C28_SizesNonZero ==
    Upserted /\ msg = "" =>
        \A k \in 1..Len(SizesOf(last.entry)) :
            /\ float_(SizesOf(last.entry)[k][2]).ok
            /\ float_(SizesOf(last.entry)[k][2]).n # 0
            /\ \A tally \in BOOLEAN :
                   calculate_entry_info(<<last.entry>>,
                                        <<<<T2, SizesOf(last.entry)[k][1]>>>>,
                                        tally, FALSE).kind = "list"

-----------------------------------------------------------------------------
(* What an edit of the log keeps (under SpecLog).                          *)

NameSet(rows) == {rows[i][1].s : i \in 1..Len(rows)}

\* The number of rows that bear the name.
Occurrences(name, rows) == Cardinality({i \in 1..Len(rows) : rows[i][1].s = name})

\* C29: an edit that succeeds leaves the log with the names it had and as
\* many rows: every edited name is the name of exactly one row afterwards,
\* and every row of another name is kept as it was (the food dictionary
\* holding each edited name once, as edit_entries has tested).
C29_EditKeepsNames ==
    Updated =>
        /\ \A i \in 1..Len(RequestedNames) : Occurrences(RequestedNames[i], fd.rows) = 1
        /\ NameSet(Ledger.rows) = NameSet(last.before.rows)
        /\ Len(Ledger.rows) = Len(last.before.rows)
        /\ \A i \in 1..Len(RequestedNames) : Occurrences(RequestedNames[i], Ledger.rows) = 1
        /\ \A i \in 1..Len(last.before.rows) :
               ~InList(last.before.rows[i][1].s, RequestedNames)
                   => last.before.rows[i] \in RowSet(Ledger)

\* Two rows of a log of three edited, and the file changed by it.
C29_Witness ==
    /\ Updated /\ Len(last.before.rows) = 3 /\ Len(Requested) = 2
    /\ Ledger # last.before

\* The edit was submitted with edit_table as EditLogWin filled it in: the
\* amount and the unit of every row are those of the log.
Resubmitted == Updated /\ last.table = EditTable(fd, last.before, RequestedNames)

\* The row of the file that bears the name.
RowNamed(file, name) ==
    file.rows[CHOOSE i \in 1..Len(file.rows) : file.rows[i][1].s = name]

\* C30: an edit submitted with the amounts and units as prefilled, the food
\* dictionary being as it was when the rows were written, writes for every
\* edited name a row equal field by field to the row stored before, so the
\* log holds the same rows; and the same edit applied to the log it leaves
\* writes that very log again.
C30_EditIdempotent ==
    Resubmitted =>
        /\ \A i \in 1..Len(RequestedNames) :
               last.rows[i] = RowNamed(last.before, RequestedNames[i])
        /\ RowSet(Ledger) = RowSet(last.before)
        /\ Len(Ledger.rows) = Len(last.before.rows)
        /\ update_log(fd, Ledger, EditTable(fd, Ledger, RequestedNames))
               = [msg |-> "", log |-> Ledger, rows |-> last.rows]

\* The first two rows of a log of three resubmitted as prefilled, one of
\* them entered in g: the rows are rewritten behind the third.
C30_Witness ==
    /\ Resubmitted /\ Len(last.before.rows) = 3 /\ Len(Requested) = 2
    /\ \E i \in 1..2 : Requested[i].unit = "g"
    /\ Ledger.rows = <<last.before.rows[3], last.before.rows[1], last.before.rows[2]>>

====
